---- MODULE Spec2Model ----
(***************************************************************************)
(* FIFO ledger engines of the wallet analyzer.                             *)
(*                                                                         *)
(*   Spec      EnhancedPnLEngine  (src/src/services/enhancedPnLEngine.ts)  *)
(*   SpecDiag  PnLEngine          (src/unnamed/part_003, lines 468-767)    *)
(*   SpecLifecycle EnhancedPnLEngine on longer histories of one asset      *)
(*   SpecClassify  SwapProcessorService (src/src/services/swapProcessor.ts) *)
(*   SpecQuality   DataQualityService (src/src/services/dataQualityService.ts) *)
(*   SpecRate      WalletAnalyzer.checkRateLimit (src/unnamed/part_002)     *)
(*   SpecConsole   WalletAnalyzer: console.log in overlapping analyses      *)
(*   SpecCache     CacheService: set, get, clear, cleanup, loading          *)
(*   SpecCacheKeys CacheService: parsed transactions (src/unnamed/part_008) *)
(*   SpecMonitor   LiveSwapMonitor: start, stop and reconnection            *)
(*   SpecDiscovery WalletDiscoveryEngine (src/wallet-discovery.ts)          *)
(*                                                                         *)
(* One call of processSwapsForPnL is modelled as: the reset, filter and    *)
(* sort (one action), one action per iteration of the processing loop,     *)
(* and the post-processing that builds the returned value (one action).    *)
(*                                                                         *)
(* Numbers.  The source computes in IEEE doubles; the model computes in    *)
(* exact rationals, so rounding noise is left out and every difference     *)
(* the model shows is a difference of the algorithm.  Token quantities    *)
(* are integers counted in thirds of the dust epsilon (0.000001 token is   *)
(* Eps = 3 units), so that quantities strictly below, equal to and above   *)
(* the epsilon all exist.  Money and unit prices are normalised fractions  *)
(* <<n, d>>: a unit price of 1 is 1 SOL per token, so one unit of money is  *)
(* a third of 0.000001 SOL.  Infinity is <<1, 0>> and NaN is <<0, 0>>.     *)
(***************************************************************************)
EXTENDS Integers, Sequences, FiniteSets, TLC

VARIABLES pc, calls, swaps, sortedSwaps, idx,
          holdings, closedTrades,
          oversellCount, zeroProfit,
          totalBuyVolume, totalSellVolume, buyCount, sellCount,
          result,
          cpc, transactions, txIndex, swapsOut, skippedTransactions,
          qualityInput, qualityReport,
          now, requestLog, admittedAt,
          instance, cache, returned, cachedFor,
          analyzer, consoleLog, analyses,
          ws, sockets, reconnectTimers, stopped,
          wallets, analysisQueue, isAnalyzing, analyzing, detections,
          successes

(* The variables of a ledger engine instance and of a processSwaps call.   *)
ledgerVars == <<pc, calls, swaps, sortedSwaps, idx, holdings, closedTrades,
                oversellCount, zeroProfit, totalBuyVolume, totalSellVolume,
                buyCount, sellCount, result>>

classifierVars == <<cpc, transactions, txIndex, swapsOut, skippedTransactions>>

(* The arguments and the returned report of the last assessDataQuality.    *)
qualityVars == <<qualityInput, qualityReport>>

(* The clock, the request log of a WalletAnalyzer, and the number of        *)
(* requests that passed checkRateLimit at each of the latest instants.     *)
rateVars == <<now, requestLog, admittedAt>>

(* The CacheService singleton: whether it exists, its Map in insertion     *)
(* order, what the last call returned (null for a call that returns        *)
(* nothing), and the pairs of a signature list with the transactions that  *)
(* cacheParsedTransactions was last given for it.                          *)
cacheVars == <<instance, cache, returned, cachedFor>>

(* A WalletAnalyzer, the global console.log, and the calls of              *)
(* analyzeWallet and analyzeWalletEnhanced in the order they were started. *)
consoleVars == <<analyzer, consoleLog, analyses>>

(* A LiveSwapMonitor: its ws field (the index of a socket, or null), every  *)
(* WebSocket constructed so far with its readyState, the reconnect timers  *)
(* that are pending, and whether the owner's last call was stop().         *)
monitorVars == <<ws, sockets, reconnectTimers, stopped>>

(* A WalletDiscoveryEngine: its wallets Map, its analysisQueue, its        *)
(* isAnalyzing flag, the wallet the worker is awaiting the analysis of     *)
(* (null when none), the number of swap detections delivered, and how many *)
(* times the analysis of each wallet has completed successfully.           *)
discoveryVars == <<wallets, analysisQueue, isAnalyzing, analyzing, detections,
                   successes>>

(* The variables of the services around the ledger and the classifier.     *)
serviceVars == <<qualityVars, rateVars, cacheVars, consoleVars, monitorVars,
                 discoveryVars>>

exceptQuality == <<ledgerVars, classifierVars, rateVars, cacheVars, consoleVars,
     monitorVars, discoveryVars>>

exceptRate == <<ledgerVars, classifierVars, qualityVars, cacheVars, consoleVars,
     monitorVars, discoveryVars>>

exceptCache == <<ledgerVars, classifierVars, qualityVars, rateVars, consoleVars,
     monitorVars, discoveryVars>>

exceptConsole == <<ledgerVars, classifierVars, qualityVars, rateVars, cacheVars,
     monitorVars, discoveryVars>>

exceptMonitor == <<ledgerVars, classifierVars, qualityVars, rateVars, cacheVars,
     consoleVars, discoveryVars>>

exceptDiscovery == <<ledgerVars, classifierVars, qualityVars, rateVars, cacheVars,
     consoleVars, monitorVars>>

vars == <<ledgerVars, classifierVars, serviceVars>>

(***************************************************************************)
(* Bounds of the exploration.                                              *)
(***************************************************************************)
MaxSwaps == 4

MaxRerun == 1

MaxCalls == 2

MaxPermLen == 3

MaxMixedLen == 3

MaxLifeLen == 5

MaxTime == 4

MaxAnalyses == 3

(* The number of WebSockets a LiveSwapMonitor may construct.                *)
MaxSockets == 3

(* The number of swap detections delivered to a WalletDiscoveryEngine.     *)
MaxDetections == 4

(***************************************************************************)
(* Exact arithmetic on fractions <<n, d>>, d > 0, in lowest terms.  A       *)
(* division by zero gives <<1, 0>>, <<-1, 0>> or <<0, 0>> (Infinity,       *)
(* -Infinity, NaN), and a comparison with NaN is false.                    *)
(***************************************************************************)
Abs(x) == IF x < 0 THEN -x ELSE x

RECURSIVE GCD(_, _)
GCD(a, b) == IF b = 0 THEN a ELSE GCD(b, a % b)

Rat(n, d) ==
  IF d = 0 THEN <<IF n > 0 THEN 1 ELSE IF n < 0 THEN -1 ELSE 0, 0>>
  ELSE LET g == GCD(Abs(n), d) IN <<n \div g, d \div g>>

R(n) == <<n, 1>>

RAdd(a, b) == Rat(a[1] * b[2] + b[1] * a[2], a[2] * b[2])

RSub(a, b) == Rat(a[1] * b[2] - b[1] * a[2], a[2] * b[2])

RMul(a, b) == Rat(a[1] * b[1], a[2] * b[2])

RDiv(a, b) ==
  IF b[1] >= 0 THEN Rat(a[1] * b[2], a[2] * b[1])
              ELSE Rat(-(a[1] * b[2]), a[2] * (-b[1]))

RLt(a, b) == a[1] * b[2] < b[1] * a[2]

RAbs(a) == <<Abs(a[1]), a[2]>>

RMin(a, b) == IF RLt(b, a) THEN b ELSE a

RMax(a, b) == IF RLt(a, b) THEN b ELSE a

(***************************************************************************)
(* Program constants.                                                      *)
(***************************************************************************)
Eps == 3

AvgCostEps == <<1, 100000000>>

Infinity == <<1, 0>>

NaN == <<0, 0>>

(* x > 0.00000001 for a fraction x >= 0, without forming n * 10^8.         *)
ExceedsAvgCostEps(x) == x[1] > 0 /\ (x[2] \div x[1]) < AvgCostEps[2]

(***************************************************************************)
(* Swap records.  fee and platform are carried by the source's Swap but    *)
(* read by neither engine; they are left out.                              *)
(***************************************************************************)
Swap(sig, mint, dir, ts, tok, sol) ==
  [signature |-> sig, tokenMint |-> mint, direction |-> dir, timestamp |-> ts,
   tokenAmount |-> tok, solAmount |-> R(sol), pricePerToken |-> Rat(sol, tok)]

SwapDomain ==
  { Swap("b1", "A", "buy",  1, 6,    12),
    Swap("b2", "A", "buy",  2, 10,   10),
    Swap("b3", "A", "buy",  1, 1,    1),
    Swap("s1", "A", "sell", 2, 4,    12),
    Swap("s2", "A", "sell", 2, 12,   12),
    Swap("s3", "A", "sell", 1, 3,    3),
    Swap("bB", "B", "buy",  1, 2000, 2000),
    Swap("sB", "B", "sell", 2, 2002, 4004),
    Swap("x1", "A", "buy",  0, 6,    6) }

(* Records validateAndFilterSwaps rejects: no timestamp (x1, above), a     *)
(* base amount of 0, a traded amount of 0 and a negative traded amount;    *)
(* pricePerToken is solAmount / tokenAmount as the classifier computes it. *)
MalformedSwaps ==
  { [Swap("z1", "A", "buy", 1, 6, 12) EXCEPT !.solAmount = R(0), !.pricePerToken = R(0)],
    [Swap("z2", "A", "sell", 2, 3, 3) EXCEPT !.tokenAmount = 0, !.pricePerToken = <<1, 0>>],
    [Swap("n1", "A", "buy", 1, 6, 12) EXCEPT !.tokenAmount = -6, !.pricePerToken = R(-2)] }

SeqsUpTo(S, n) == UNION { [1..k -> S] : k \in 0..n }

MixedInputs == SeqsUpTo(SwapDomain \cup MalformedSwaps, MaxMixedLen)

Inputs == SeqsUpTo(SwapDomain, MaxSwaps)

RerunInputs == SeqsUpTo(SwapDomain, MaxRerun)

ShortInputs == SeqsUpTo(SwapDomain, MaxPermLen)

(* Longer histories of the one asset A, all of them valid swaps.           *)
LifecycleInputs ==
  SeqsUpTo({ sw \in SwapDomain : sw.tokenMint = "A" /\ sw.timestamp > 0 },
           MaxLifeLen)

NoResult == [none |-> TRUE]

(***************************************************************************)
(* Engine state as a record, so that the operations are operators that     *)
(* the actions and the whole-run fold both apply.                          *)
(***************************************************************************)
Engine ==
  [holdings |-> holdings, closedTrades |-> closedTrades,
   oversellCount |-> oversellCount, zeroProfit |-> zeroProfit,
   totalBuyVolume |-> totalBuyVolume, totalSellVolume |-> totalSellVolume,
   buyCount |-> buyCount, sellCount |-> sellCount]

NewEngine ==
  [holdings |-> <<>>, closedTrades |-> <<>>,
   oversellCount |-> 0, zeroProfit |-> 0,
   totalBuyVolume |-> R(0), totalSellVolume |-> R(0),
   buyCount |-> 0, sellCount |-> 0]

(***************************************************************************)
(* Map<string, Holding>: a sequence of holdings in insertion order.        *)
(***************************************************************************)
HoldingIndex(hs, mint) ==
  IF \E i \in 1..Len(hs) : hs[i].tokenMint = mint
    THEN CHOOSE i \in 1..Len(hs) : hs[i].tokenMint = mint
    ELSE 0

RemoveAt(s, i) == SubSeq(s, 1, i - 1) \o SubSeq(s, i + 1, Len(s))

MapSet(hs, h) ==
  LET i == HoldingIndex(hs, h.tokenMint) IN
  IF i = 0 THEN Append(hs, h) ELSE [hs EXCEPT ![i] = h]

MapDelete(hs, mint) ==
  LET i == HoldingIndex(hs, mint) IN
  IF i = 0 THEN hs ELSE RemoveAt(hs, i)

RECURSIVE SumQuantity(_)
SumQuantity(lots) ==
  IF lots = <<>> THEN 0 ELSE lots[1].quantity + SumQuantity(Tail(lots))

RECURSIVE TotalCost(_)
TotalCost(lots) ==
  IF lots = <<>> THEN R(0)
  ELSE RAdd(RMul(R(lots[1].quantity), lots[1].costPerUnit), TotalCost(Tail(lots)))

(***************************************************************************)
(* EnhancedPnLEngine                                                       *)
(***************************************************************************)
(* The "Basic validation" of validateAndFilterSwaps, for one swap.         *)
acceptAll(swap) == TRUE

validSwap(swap) ==
  /\ swap.signature # "" /\ swap.tokenMint # "" /\ swap.timestamp # 0
  /\ ~(swap.tokenAmount <= 0 \/ ~RLt(R(0), swap.solAmount))
  /\ RLt(R(0), swap.pricePerToken)

keepAllSwaps(input) == input

validateAndFilterSwaps(input) == SelectSeq(input, validSwap)

(* [...validSwaps].sort((a, b) => a.timestamp - b.timestamp): stable.      *)
RECURSIVE InsertByTimestamp(_, _)
InsertByTimestamp(sorted, swap) ==
  IF sorted = <<>> THEN <<swap>>
  ELSE IF sorted[Len(sorted)].timestamp - swap.timestamp <= 0
    THEN Append(sorted, swap)
    ELSE Append(InsertByTimestamp(SubSeq(sorted, 1, Len(sorted) - 1), swap),
                sorted[Len(sorted)])

NoSort(s) == s

RECURSIVE SortByTimestamp(_)
SortByTimestamp(s) ==
  IF s = <<>> THEN <<>>
  ELSE InsertByTimestamp(SortByTimestamp(SubSeq(s, 1, Len(s) - 1)), s[Len(s)])

(* holding.purchaseLots.push(lot)                                          *)
pushLotInFront(lots, lot) == <<lot>> \o lots

pushLot(lots, lot) == Append(lots, lot)

processBuyEnhanced(e, swap) ==
  LET lot == [quantity |-> swap.tokenAmount, costPerUnit |-> swap.pricePerToken,
              timestamp |-> swap.timestamp, signature |-> swap.signature]
      i == HoldingIndex(e.holdings, swap.tokenMint)
      old == IF i = 0
               THEN [tokenMint |-> swap.tokenMint, purchaseLots |-> <<>>,
                     totalQuantity |-> 0, averageCostPerUnit |-> R(0)]
               ELSE e.holdings[i]
      lots == pushLot(old.purchaseLots, lot)
      total == old.totalQuantity + lot.quantity
      h == [tokenMint |-> old.tokenMint, purchaseLots |-> lots,
            totalQuantity |-> total,
            averageCostPerUnit |-> RDiv(TotalCost(lots), R(total))]
  IN [e EXCEPT !.holdings = MapSet(e.holdings, h)]

handleMissingBuy(e, swap) ==
  LET closedTrade ==
        [tokenMint |-> swap.tokenMint,
         totalCostBasisInSol |-> R(0),
         totalProceedsInSol |-> swap.solAmount,
         realizedPnLInSol |-> R(0),
         realizedPnLPercent |-> R(0),
         holdingDurationSeconds |-> 0,
         buyTimestamp |-> swap.timestamp,
         sellTimestamp |-> swap.timestamp,
         quantity |-> swap.tokenAmount]
  IN [e EXCEPT !.closedTrades = Append(e.closedTrades, closedTrade),
               !.zeroProfit = e.zeroProfit + 1]

(* const costBasisFromThisLot = quantityFromThisLot * lot.costPerUnit      *)
costBasisOfWholeLot(quantityFromThisLot, lot) ==
  RMul(R(lot.quantity), lot.costPerUnit)

costBasisFromThisLot(quantityFromThisLot, lot) ==
  RMul(R(quantityFromThisLot), lot.costPerUnit)

(* const realizedPnLInSol = swap.solAmount - totalCostBasis                *)
realizedPnLIgnoringCost(solAmount, totalCostBasis) == solAmount

realizedPnL(solAmount, totalCostBasis) == RSub(solAmount, totalCostBasis)

(* The FIFO while-loop of handleNormalSell.                                *)
RECURSIVE FifoLoop(_, _, _, _, _)
FifoLoop(lots, remainingQuantityToSell, totalCostBasis, totalQuantitySold, buyTimestamp) ==
  IF remainingQuantityToSell > Eps /\ Len(lots) > 0
    THEN LET lot == lots[1]
             ts == IF buyTimestamp = 0 THEN lot.timestamp ELSE buyTimestamp
             quantityFromThisLot ==
               IF remainingQuantityToSell < lot.quantity
                 THEN remainingQuantityToSell ELSE lot.quantity
             rest == IF quantityFromThisLot >= lot.quantity - Eps
                       THEN Tail(lots)
                       ELSE [lots EXCEPT ![1].quantity = lot.quantity - quantityFromThisLot]
         IN FifoLoop(rest, remainingQuantityToSell - quantityFromThisLot,
                     RAdd(totalCostBasis, costBasisFromThisLot(quantityFromThisLot, lot)),
                     totalQuantitySold + quantityFromThisLot, ts)
    ELSE [lots |-> lots, remaining |-> remainingQuantityToSell,
          totalCostBasis |-> totalCostBasis,
          totalQuantitySold |-> totalQuantitySold, buyTimestamp |-> buyTimestamp]

(* The holding passed by reference is the one stored under swap.tokenMint. *)
handleNormalSell(e, swap) ==
  LET i == HoldingIndex(e.holdings, swap.tokenMint)
      holding == e.holdings[i]
      f == FifoLoop(holding.purchaseLots, swap.tokenAmount, R(0), 0, 0)
      total == holding.totalQuantity - f.totalQuantitySold
      h == [holding EXCEPT
              !.purchaseLots = f.lots,
              !.totalQuantity = total,
              !.averageCostPerUnit =
                 IF total > 0 THEN RDiv(TotalCost(f.lots), R(total)) ELSE R(0)]
      realizedPnLInSol == realizedPnL(swap.solAmount, f.totalCostBasis)
      closedTrade ==
        [tokenMint |-> swap.tokenMint,
         totalCostBasisInSol |-> f.totalCostBasis,
         totalProceedsInSol |-> swap.solAmount,
         realizedPnLInSol |-> realizedPnLInSol,
         realizedPnLPercent |->
            IF RLt(R(0), f.totalCostBasis)
              THEN RMul(RDiv(realizedPnLInSol, f.totalCostBasis), R(100))
              ELSE R(0),
         holdingDurationSeconds |-> swap.timestamp - f.buyTimestamp,
         buyTimestamp |-> f.buyTimestamp,
         sellTimestamp |-> swap.timestamp,
         quantity |-> f.totalQuantitySold]
  IN [e EXCEPT
        !.holdings = IF total < Eps THEN MapDelete(e.holdings, swap.tokenMint)
                                    ELSE MapSet(e.holdings, h),
        !.closedTrades = Append(e.closedTrades, closedTrade)]

(* const matchedProceeds = swap.solAmount * matchedPortion                 *)
matchedProceedsInFull(solAmount, matchedPortion) == solAmount

matchedProceedsOf(solAmount, matchedPortion) == RMul(solAmount, matchedPortion)

handlePartialOversell(e, swap) ==
  LET holding == e.holdings[HoldingIndex(e.holdings, swap.tokenMint)]
      availableQuantity == holding.totalQuantity
      requestedQuantity == swap.tokenAmount
      oversellQuantity == requestedQuantity - availableQuantity
      matchedPortion == Rat(availableQuantity, requestedQuantity)
      matchedProceeds == matchedProceedsOf(swap.solAmount, matchedPortion)
      matchedSwap == [swap EXCEPT
                        !.tokenAmount = availableQuantity,
                        !.solAmount = matchedProceeds,
                        !.pricePerToken = RDiv(matchedProceeds, R(availableQuantity))]
      e1 == IF availableQuantity > Eps THEN handleNormalSell(e, matchedSwap) ELSE e
      oversellPortion == Rat(oversellQuantity, requestedQuantity)
      oversellProceeds == RMul(swap.solAmount, oversellPortion)
      oversellTrade ==
        [tokenMint |-> swap.tokenMint,
         totalCostBasisInSol |-> R(0),
         totalProceedsInSol |-> oversellProceeds,
         realizedPnLInSol |-> R(0),
         realizedPnLPercent |-> R(0),
         holdingDurationSeconds |-> 0,
         buyTimestamp |-> swap.timestamp,
         sellTimestamp |-> swap.timestamp,
         quantity |-> oversellQuantity]
  IN [e1 EXCEPT !.closedTrades = Append(e1.closedTrades, oversellTrade),
                !.oversellCount = e1.oversellCount + 1]

(* requestedQuantity > availableQuantity * 1.001                           *)
BeyondTolerance(requestedQuantity, availableQuantity) ==
  requestedQuantity * 1000 > availableQuantity * 1001

processSellEnhanced(e, swap) ==
  LET i == HoldingIndex(e.holdings, swap.tokenMint) IN
  IF i = 0 \/ Len(e.holdings[i].purchaseLots) = 0
    THEN handleMissingBuy(e, swap)
    ELSE IF BeyondTolerance(swap.tokenAmount, e.holdings[i].totalQuantity)
      THEN handlePartialOversell(e, swap)
      ELSE handleNormalSell(e, swap)

processSwapWithValidation(e, swap) ==
  IF swap.direction = "buy"
    THEN LET e1 == processBuyEnhanced(e, swap) IN
         [e1 EXCEPT !.buyCount = e1.buyCount + 1,
                    !.totalBuyVolume = RAdd(e1.totalBuyVolume, swap.solAmount)]
    ELSE IF swap.direction = "sell"
      THEN LET e1 == processSellEnhanced(e, swap) IN
           [e1 EXCEPT !.sellCount = e1.sellCount + 1,
                      !.totalSellVolume = RAdd(e1.totalSellVolume, swap.solAmount)]
      ELSE e

(* One iteration of the loop of validateAndCleanHoldings.                  *)
cleanHolding(holding) ==
  LET calculatedQuantity == SumQuantity(holding.purchaseLots)
      h1 == IF Abs(calculatedQuantity - holding.totalQuantity) > Eps
              THEN [holding EXCEPT !.totalQuantity = calculatedQuantity]
              ELSE holding
      correctAverageCost == RDiv(TotalCost(h1.purchaseLots), R(h1.totalQuantity))
  IN IF Len(h1.purchaseLots) > 0
          /\ ExceedsAvgCostEps(RAbs(RSub(correctAverageCost, h1.averageCostPerUnit)))
       THEN [h1 EXCEPT !.averageCostPerUnit = correctAverageCost]
       ELSE h1

(* The holdings map after validateAndCleanHoldings: the holdings above the *)
(* epsilon are the objects it corrected in place.                          *)
RECURSIVE cleanedHoldings(_)
cleanedHoldings(hs) ==
  IF hs = <<>> THEN <<>>
  ELSE <<IF hs[1].totalQuantity > Eps THEN cleanHolding(hs[1]) ELSE hs[1]>>
         \o cleanedHoldings(Tail(hs))

(* The array validateAndCleanHoldings returns.                             *)
RECURSIVE validateAndCleanHoldings(_)
validateAndCleanHoldings(hs) ==
  IF hs = <<>> THEN <<>>
  ELSE (IF hs[1].totalQuantity > Eps THEN <<cleanHolding(hs[1])>> ELSE <<>>)
         \o validateAndCleanHoldings(Tail(hs))

(* 0/0 is NaN, and NaN survives every later operation and the clamp.       *)
calculateDataQualityScore(e, validCount, totalSwaps) ==
  IF totalSwaps = 0 \/ Len(e.closedTrades) = 0 THEN NaN
  ELSE
    LET filteredRatio == Rat(totalSwaps - validCount, totalSwaps)
        oversellRatio == Rat(e.oversellCount, Len(e.closedTrades))
        zeroProfitRatio == Rat(e.zeroProfit, Len(e.closedTrades))
        s3 == RSub(RSub(RSub(R(100), RMul(filteredRatio, R(20))),
                        RMul(oversellRatio, R(30))),
                   RMul(zeroProfitRatio, R(25)))
        lo == IF e.buyCount < e.sellCount THEN e.buyCount ELSE e.sellCount
        hi == IF e.buyCount < e.sellCount THEN e.sellCount ELSE e.buyCount
        score == IF e.buyCount > 0 /\ e.sellCount > 0
                   THEN RAdd(s3, RMul(Rat(lo, hi), R(10)))
                   ELSE s3
    IN RMax(R(0), RMin(R(100), score))

(* The value processSwapsForPnL returns, from the state after the loop.    *)
PnLProcessingResult(e, validCount, totalSwaps) ==
  [closedTrades |-> e.closedTrades,
   openHoldings |-> validateAndCleanHoldings(e.holdings),
   processingSummary |->
     [totalSwapsProcessed |-> totalSwaps,
      validSwapsProcessed |-> validCount,
      oversellTradesCreated |-> e.oversellCount,
      zeroProfit |-> e.zeroProfit,
      avgBuyPrice |-> IF e.buyCount > 0
                        THEN RDiv(e.totalBuyVolume, R(e.buyCount)) ELSE R(0),
      avgSellPrice |-> IF e.sellCount > 0
                         THEN RDiv(e.totalSellVolume, R(e.sellCount)) ELSE R(0),
      netSOL |-> RSub(e.totalSellVolume, e.totalBuyVolume),
      dataQualityScore |-> calculateDataQualityScore(e, validCount, totalSwaps)]]

(***************************************************************************)
(* Actions of one EnhancedPnLEngine instance.                              *)
(***************************************************************************)
SetEngine(e) ==
  /\ holdings' = e.holdings
  /\ closedTrades' = e.closedTrades
  /\ oversellCount' = e.oversellCount
  /\ zeroProfit' = e.zeroProfit
  /\ totalBuyVolume' = e.totalBuyVolume
  /\ totalSellVolume' = e.totalSellVolume
  /\ buyCount' = e.buyCount
  /\ sellCount' = e.sellCount

(* The state the "Reset state" block of processSwapsForPnL leaves.         *)
ResetStateKeepingTrades(e) == [NewEngine EXCEPT !.closedTrades = e.closedTrades]

ResetState(e) == NewEngine

(* A call on a fresh instance takes any input; a later call on the same    *)
(* instance repeats the input or takes a short one.                        *)
CallInputs ==
  IF pc = "idle" THEN Inputs ELSE {swaps} \cup RerunInputs

(* processSwapsForPnL, lines 31-50: reset, filter, sort.                   *)
StartRun ==
  /\ pc \in {"idle", "done"}
  /\ calls < MaxCalls
  /\ calls' = calls + 1
  /\ \E input \in CallInputs :
       /\ swaps' = input
       /\ sortedSwaps' = SortByTimestamp(validateAndFilterSwaps(input))
  /\ SetEngine(ResetState(Engine))
  /\ idx' = 0
  /\ result' = NoResult
  /\ pc' = "processing"
  /\ UNCHANGED <<classifierVars, serviceVars>>

(* The same call on a newly constructed instance, on the shorter inputs    *)
(* whose reorderings are compared.                                         *)
StartRunShort ==
  /\ pc = "idle"
  /\ calls' = calls + 1
  /\ \E input \in ShortInputs :
       /\ swaps' = input
       /\ sortedSwaps' = SortByTimestamp(validateAndFilterSwaps(input))
  /\ SetEngine(ResetState(Engine))
  /\ idx' = 0
  /\ result' = NoResult
  /\ pc' = "processing"
  /\ UNCHANGED <<classifierVars, serviceVars>>

(* processSwapsForPnL, lines 53-55: one iteration of the loop.             *)
ProcessSwap ==
  /\ pc = "processing"
  /\ idx < Len(sortedSwaps)
  /\ SetEngine(processSwapWithValidation(Engine, sortedSwaps[idx + 1]))
  /\ idx' = idx + 1
  /\ UNCHANGED <<pc, calls, swaps, sortedSwaps, result>>
  /\ UNCHANGED <<classifierVars, serviceVars>>

(* processSwapsForPnL, lines 58-86: post-processing and return.            *)
FinishRun ==
  /\ pc = "processing"
  /\ idx = Len(sortedSwaps)
  /\ result' = PnLProcessingResult(Engine, Len(sortedSwaps), Len(swaps))
  /\ holdings' = cleanedHoldings(holdings)
  /\ pc' = "done"
  /\ UNCHANGED <<calls, swaps, sortedSwaps, idx, closedTrades, oversellCount, zeroProfit,
                 totalBuyVolume, totalSellVolume, buyCount, sellCount>>
  /\ UNCHANGED <<classifierVars, serviceVars>>

NoInput == [none |-> TRUE]

(* One hour, in clock ticks of half an hour.                               *)
RATE_LIMIT_WINDOW == 2

MAX_REQUESTS_PER_HOUR == 100

NoEntry == [none |-> TRUE]

null == [none |-> TRUE]

(* Function values: 0 is the console.log of the runtime, i > 0 is the      *)
(* arrow function () => {} created by the i-th call.                       *)
originalConsoleLog == 0

NoReport == [none |-> TRUE]

(* The wallet addresses that appear in swap detections.                    *)
WalletAddresses == { "W1", "W2" }

Init ==
  /\ pc = "idle"
  /\ calls = 0
  /\ swaps = <<>>
  /\ sortedSwaps = <<>>
  /\ idx = 0
  /\ holdings = <<>>
  /\ closedTrades = <<>>
  /\ oversellCount = 0
  /\ zeroProfit = 0
  /\ totalBuyVolume = R(0)
  /\ totalSellVolume = R(0)
  /\ buyCount = 0
  /\ sellCount = 0
  /\ result = NoResult
  /\ cpc = "idle"
  /\ transactions = <<>>
  /\ txIndex = 0
  /\ swapsOut = <<>>
  /\ skippedTransactions = <<>>
  /\ qualityInput = NoInput
  /\ qualityReport = NoReport
  /\ now = 0
  /\ requestLog = NoEntry
  /\ admittedAt = [i \in 1..RATE_LIMIT_WINDOW |-> 0]
  /\ instance = FALSE
  /\ cache = <<>>
  /\ returned = null
  /\ cachedFor = {}
  /\ analyzer = null
  /\ consoleLog = originalConsoleLog
  /\ analyses = <<>>
  /\ ws = null
  /\ sockets = <<>>
  /\ reconnectTimers = 0
  /\ stopped = FALSE
  /\ wallets = <<>>
  /\ analysisQueue = <<>>
  /\ isAnalyzing = FALSE
  /\ analyzing = null
  /\ detections = 0
  /\ successes = [w \in WalletAddresses |-> 0]

Next == StartRun \/ ProcessSwap \/ FinishRun

Spec == Init /\ [][Next]_vars

(* The same call on a newly constructed instance, on inputs that mix       *)
(* well-formed and malformed records.                                      *)
StartRunMixed ==
  /\ pc = "idle"
  /\ calls' = calls + 1
  /\ \E input \in MixedInputs :
       /\ swaps' = input
       /\ sortedSwaps' = SortByTimestamp(validateAndFilterSwaps(input))
  /\ SetEngine(ResetState(Engine))
  /\ idx' = 0
  /\ result' = NoResult
  /\ pc' = "processing"
  /\ UNCHANGED <<classifierVars, serviceVars>>

NextMixed == StartRunMixed \/ ProcessSwap \/ FinishRun

SpecMixed == Init /\ [][NextMixed]_vars

(* The same call on a newly constructed instance, on the longer histories  *)
(* of one asset.                                                           *)
StartRunLifecycle ==
  /\ pc = "idle"
  /\ calls' = calls + 1
  /\ \E input \in LifecycleInputs :
       /\ swaps' = input
       /\ sortedSwaps' = SortByTimestamp(validateAndFilterSwaps(input))
  /\ SetEngine(ResetState(Engine))
  /\ idx' = 0
  /\ result' = NoResult
  /\ pc' = "processing"
  /\ UNCHANGED <<classifierVars, serviceVars>>

NextLifecycle == StartRunLifecycle \/ ProcessSwap \/ FinishRun

SpecLifecycle == Init /\ [][NextLifecycle]_vars

NextPerm == StartRunShort \/ ProcessSwap \/ FinishRun

SpecPerm == Init /\ [][NextPerm]_vars

(* A whole call on a newly constructed instance, as one value.             *)
RECURSIVE ProcessAll(_, _)
ProcessAll(e, sorted) ==
  IF sorted = <<>> THEN e
  ELSE ProcessAll(processSwapWithValidation(e, sorted[1]), Tail(sorted))

RunOnNewInstance(input) ==
  LET valid == validateAndFilterSwaps(input)
      e == ProcessAll(NewEngine, SortByTimestamp(valid))
  IN PnLProcessingResult(e, Len(valid), Len(input))

(***************************************************************************)
(* PnLEngine (diagnostic version), the engine WalletAnalyzer.analyzeWallet *)
(* runs.  It keeps no counters: the counter variables stay as constructed. *)
(***************************************************************************)
processBuyDiagnostic(e, swap) == processBuyEnhanced(e, swap)

processSellDiagnostic(e, swap) ==
  LET i == HoldingIndex(e.holdings, swap.tokenMint) IN
  IF i = 0 \/ Len(e.holdings[i].purchaseLots) = 0
    THEN
      LET closedTrade ==
            [tokenMint |-> swap.tokenMint,
             totalCostBasisInSol |-> R(0),
             totalProceedsInSol |-> swap.solAmount,
             realizedPnLInSol |-> swap.solAmount,
             realizedPnLPercent |-> Infinity,
             holdingDurationSeconds |-> 0,
             buyTimestamp |-> swap.timestamp,
             sellTimestamp |-> swap.timestamp,
             quantity |-> swap.tokenAmount]
      IN [e EXCEPT !.closedTrades = Append(e.closedTrades, closedTrade)]
    ELSE
      LET holding == e.holdings[i]
          f == FifoLoop(holding.purchaseLots, swap.tokenAmount, R(0), 0, 0)
          total == holding.totalQuantity - f.totalQuantitySold
          h == [holding EXCEPT
                  !.purchaseLots = f.lots,
                  !.totalQuantity = total,
                  !.averageCostPerUnit =
                     IF total > 0 THEN RDiv(TotalCost(f.lots), R(total)) ELSE R(0)]
          hs == IF total < Eps THEN MapDelete(e.holdings, swap.tokenMint)
                               ELSE MapSet(e.holdings, h)
          pct(pnl) == IF RLt(R(0), f.totalCostBasis)
                        THEN RMul(RDiv(pnl, f.totalCostBasis), R(100))
                        ELSE Infinity
          matched(proceeds) ==
            [tokenMint |-> swap.tokenMint,
             totalCostBasisInSol |-> f.totalCostBasis,
             totalProceedsInSol |-> proceeds,
             realizedPnLInSol |-> RSub(proceeds, f.totalCostBasis),
             realizedPnLPercent |-> pct(RSub(proceeds, f.totalCostBasis)),
             holdingDurationSeconds |-> swap.timestamp - f.buyTimestamp,
             buyTimestamp |-> f.buyTimestamp,
             sellTimestamp |-> swap.timestamp,
             quantity |-> f.totalQuantitySold]
          actualProceedsForMatchedTokens ==
            RMul(Rat(f.totalQuantitySold, swap.tokenAmount), swap.solAmount)
          oversellProceeds ==
            RMul(Rat(f.remaining, swap.tokenAmount), swap.solAmount)
          oversellTrade ==
            [tokenMint |-> swap.tokenMint,
             totalCostBasisInSol |-> R(0),
             totalProceedsInSol |-> oversellProceeds,
             realizedPnLInSol |-> oversellProceeds,
             realizedPnLPercent |-> Infinity,
             holdingDurationSeconds |-> 0,
             buyTimestamp |-> swap.timestamp,
             sellTimestamp |-> swap.timestamp,
             quantity |-> f.remaining]
          trades ==
            IF f.remaining > Eps
              THEN (IF f.totalQuantitySold > Eps
                      THEN <<matched(actualProceedsForMatchedTokens)>> ELSE <<>>)
                   \o <<oversellTrade>>
              ELSE <<matched(swap.solAmount)>>
      IN [e EXCEPT !.holdings = hs,
                   !.closedTrades = e.closedTrades \o trades]

processSwapDiagnostic(e, swap) ==
  IF swap.direction = "buy" THEN processBuyDiagnostic(e, swap)
  ELSE IF swap.direction = "sell" THEN processSellDiagnostic(e, swap)
  ELSE e

(* The filter that builds openHoldings at the end of the diagnostic run.   *)
openHoldingsDiagnostic(hs) == SelectSeq(hs, LAMBDA h : h.totalQuantity > Eps)

(* PnLEngine.processSwapsForPnL, lines 479-484: reset and sort.            *)
StartRunDiag ==
  /\ pc \in {"idle", "done"}
  /\ calls < MaxCalls
  /\ calls' = calls + 1
  /\ \E input \in CallInputs :
       /\ swaps' = input
       /\ sortedSwaps' = SortByTimestamp(input)
  /\ holdings' = <<>>
  /\ closedTrades' = <<>>
  /\ idx' = 0
  /\ result' = NoResult
  /\ pc' = "processing"
  /\ UNCHANGED <<oversellCount, zeroProfit, totalBuyVolume, totalSellVolume,
                 buyCount, sellCount>>
  /\ UNCHANGED <<classifierVars, serviceVars>>

(* PnLEngine.processSwapsForPnL, lines 513-536: one iteration of the loop. *)
ProcessSwapDiag ==
  /\ pc = "processing"
  /\ idx < Len(sortedSwaps)
  /\ SetEngine(processSwapDiagnostic(Engine, sortedSwaps[idx + 1]))
  /\ idx' = idx + 1
  /\ UNCHANGED <<pc, calls, swaps, sortedSwaps, result>>
  /\ UNCHANGED <<classifierVars, serviceVars>>

(* PnLEngine.processSwapsForPnL, lines 539-563: filter and return.         *)
FinishRunDiag ==
  /\ pc = "processing"
  /\ idx = Len(sortedSwaps)
  /\ result' = [closedTrades |-> closedTrades,
                openHoldings |-> openHoldingsDiagnostic(holdings)]
  /\ pc' = "done"
  /\ UNCHANGED <<calls, swaps, sortedSwaps, idx, holdings, closedTrades,
                 oversellCount, zeroProfit, totalBuyVolume, totalSellVolume,
                 buyCount, sellCount>>
  /\ UNCHANGED <<classifierVars, serviceVars>>

NextDiag == StartRunDiag \/ ProcessSwapDiag \/ FinishRunDiag

SpecDiag == Init /\ [][NextDiag]_vars

(***************************************************************************)
(* SwapProcessorService (src/src/services/swapProcessor.ts).               *)
(*                                                                         *)
(* One call of processSwaps is modelled as: the entry (one action), one    *)
(* action per iteration of the loop over the transactions, and the return. *)
(* A TypeError raised inside the loop leaves the call in "thrown": there   *)
(* is no try/catch, so nothing is returned.                                *)
(*                                                                         *)
(* Token amounts are in the units of the ledger (0.000001 token is Eps).   *)
(* Base-asset amounts are fractions in the ledger's unit of money, a third *)
(* of 0.000001 SOL: 0.00001 SOL is SolEps, and one lamport (1e-9 SOL) is   *)
(* 3/1000 of a unit.  A missing field is the value undefined.              *)
(***************************************************************************)
MaxTxs == 2

walletAddress == "W"

WSOL == "So11111111111111111111111111111111111111112"

undefined == "undefined"

SolEps == 30

(* t.amount / 1e9, in units of money                                       *)
lamportsToSol(amount) == RMul(R(amount), Rat(3, 1000))

TokenTransfer(mint, from, to, amount) ==
  [mint |-> mint, fromUserAccount |-> from, toUserAccount |-> to, tokenAmount |-> amount]

NativeTransfer(from, to, amount) ==
  [fromUserAccount |-> from, toUserAccount |-> to, amount |-> amount]

(* The asset and base-asset transfers of a transaction.                    *)
TransferSets ==
  { [name |-> "buy",
     tokenTransfers |-> <<TokenTransfer("X", "P", "W", 1000)>>,
     nativeTransfers |-> <<NativeTransfer("W", "P", 20000)>>],
    [name |-> "sell",
     tokenTransfers |-> <<TokenTransfer("X", "W", "P", 400)>>,
     nativeTransfers |-> <<NativeTransfer("P", "W", 20000), NativeTransfer("P", "W", 5000)>>],
    [name |-> "tie",
     tokenTransfers |-> <<TokenTransfer("X", "P", "W", 500), TokenTransfer("Y", "W", "P", 500)>>,
     nativeTransfers |-> <<NativeTransfer("W", "P", 20000)>>],
    [name |-> "tie3",
     tokenTransfers |-> <<TokenTransfer("X", "P", "W", 500), TokenTransfer("Y", "P", "W", 300),
                          TokenTransfer("Z", "P", "W", 500), TokenTransfer("Y", "P", "W", 100)>>,
     nativeTransfers |-> <<NativeTransfer("W", "P", 20000)>>],
    [name |-> "refund",
     tokenTransfers |-> <<TokenTransfer(WSOL, "W", "P", 90), TokenTransfer(WSOL, "P", "W", 30),
                          TokenTransfer("X", "P", "W", 1000)>>,
     nativeTransfers |-> <<>>],
    [name |-> "self",
     tokenTransfers |-> <<TokenTransfer("X", "P", "W", 1000), TokenTransfer("X", "W", "W", 300)>>,
     nativeTransfers |-> <<NativeTransfer("W", "P", 20000), NativeTransfer("W", "W", 7000)>>],
    [name |-> "gift",
     tokenTransfers |-> <<TokenTransfer("X", "P", "W", 1000)>>,
     nativeTransfers |-> <<NativeTransfer("P", "W", 20000)>>],
    [name |-> "trivial",
     tokenTransfers |-> <<TokenTransfer("X", "P", "W", 1000)>>,
     nativeTransfers |-> <<NativeTransfer("W", "P", 10000)>>],
    [name |-> "other",
     tokenTransfers |-> <<TokenTransfer("X", "P", "Q", 1000)>>,
     nativeTransfers |-> <<>>] }

(* type, source and instruction program ids of a transaction.              *)
Attributions ==
  { [name |-> "-swap",    type |-> "SWAP",     source |-> "JUPITER", instructions |-> <<>>],
    [name |-> "-raydium", type |-> "UNKNOWN",  source |-> "RAYDIUM", instructions |-> <<>>],
    [name |-> "-program", type |-> "TRANSFER", source |-> "UNKNOWN",
     instructions |-> <<"ComputeBudget111111111111111111111111111111",
                        "675kPX9MHTjS2zt1qfr1NYHuzeLXfQM9H24wFSUt1Mp8">>],
    [name |-> "-unknown", type |-> "UNKNOWN",  source |-> "UNKNOWN", instructions |-> <<>>] }

ParsedTransaction(signature, blockTime, a, t) ==
  [signature |-> signature, blockTime |-> blockTime,
   type |-> a.type, source |-> a.source, instructions |-> a.instructions,
   tokenTransfers |-> t.tokenTransfers, nativeTransfers |-> t.nativeTransfers]

AnyTransfers == CHOOSE t \in TransferSets : t.name = "buy"

AnyAttribution == CHOOSE a \in Attributions : a.name = "-swap"

TxDomain ==
  { ParsedTransaction(t.name \o a.name, 7, a, t) : t \in TransferSets, a \in Attributions }
    \cup { ParsedTransaction(undefined, 7, AnyAttribution, AnyTransfers),
           ParsedTransaction("noBlockTime", 0, AnyAttribution, AnyTransfers),
           ParsedTransaction(undefined, 0, AnyAttribution, AnyTransfers) }

TxInputs == SeqsUpTo(TxDomain, MaxTxs)

isSolOrWsol(mint) == mint = WSOL

normalizeTokenAmount(tokenTransfer) == Abs(tokenTransfer.tokenAmount)

(* Map<string, number> as a sequence of <<mint, change>> in insertion order *)
changeIndex(changes, mint) ==
  IF \E i \in 1..Len(changes) : changes[i][1] = mint
    THEN CHOOSE i \in 1..Len(changes) : changes[i][1] = mint
    ELSE 0

changeGet(changes, mint) ==
  IF changeIndex(changes, mint) = 0 THEN 0 ELSE changes[changeIndex(changes, mint)][2]

changeSet(changes, mint, value) ==
  IF changeIndex(changes, mint) = 0 THEN Append(changes, <<mint, value>>)
  ELSE [changes EXCEPT ![changeIndex(changes, mint)] = <<mint, value>>]

(* let netChange = 0; if (to === wallet) netChange = amount;               *)
(* if (from === wallet) netChange = -amount                                *)
netChangeOf(t) ==
  IF t.fromUserAccount = walletAddress THEN -normalizeTokenAmount(t)
  ELSE IF t.toUserAccount = walletAddress THEN normalizeTokenAmount(t)
  ELSE 0

(* The first forEach of analyzeTradeDirection: the tokenChanges map.       *)
RECURSIVE tokenChangesOf(_, _)
tokenChangesOf(tokenTransfers, changes) ==
  IF tokenTransfers = <<>> THEN changes
  ELSE LET t == tokenTransfers[1] IN
       tokenChangesOf(Tail(tokenTransfers),
                      IF isSolOrWsol(t.mint) THEN changes
                      ELSE changeSet(changes, t.mint, changeGet(changes, t.mint) + netChangeOf(t)))

(* solChange += amount if received, -= amount if sent.                     *)
solDelta(t, amount) ==
  RSub(IF t.toUserAccount = walletAddress THEN amount ELSE R(0),
       IF t.fromUserAccount = walletAddress THEN amount ELSE R(0))

RECURSIVE wsolChangeOf(_)
wsolChangeOf(tokenTransfers) ==
  IF tokenTransfers = <<>> THEN R(0)
  ELSE RAdd(IF isSolOrWsol(tokenTransfers[1].mint)
              THEN solDelta(tokenTransfers[1], R(normalizeTokenAmount(tokenTransfers[1])))
              ELSE R(0),
            wsolChangeOf(Tail(tokenTransfers)))

RECURSIVE nativeChangeOf(_)
nativeChangeOf(nativeTransfers) ==
  IF nativeTransfers = <<>> THEN R(0)
  ELSE RAdd(solDelta(nativeTransfers[1], lamportsToSol(nativeTransfers[1].amount)),
            nativeChangeOf(Tail(nativeTransfers)))

solChangeOf(tx) == RAdd(wsolChangeOf(tx.tokenTransfers), nativeChangeOf(tx.nativeTransfers))

(* reduce((a, b) => Math.abs(a[1]) > Math.abs(b[1]) ? a : b)               *)
largerOrEarlier(a, b) == IF Abs(a[2]) >= Abs(b[2]) THEN a ELSE b

largerOrLater(a, b) == IF Abs(a[2]) > Abs(b[2]) THEN a ELSE b

RECURSIVE reduceLargest(_, _)
reduceLargest(a, rest) ==
  IF rest = <<>> THEN a ELSE reduceLargest(largerOrLater(a, rest[1]), Tail(rest))

significantChangesOf(tx) ==
  SelectSeq(tokenChangesOf(tx.tokenTransfers, <<>>), LAMBDA c : Abs(c[2]) > Eps)

(* const solAmount = Math.abs(solChange)                                   *)
solAmountOf(tx, direction) == RAbs(solChangeOf(tx))

NoTrade == [found |-> FALSE]

analyzeTradeDirection(tx) ==
  LET significantChanges == significantChangesOf(tx)
      solChange == solChangeOf(tx)
  IN IF Len(significantChanges) = 0 \/ RLt(RAbs(solChange), R(SolEps)) THEN NoTrade
     ELSE
       LET main == reduceLargest(significantChanges[1], Tail(significantChanges))
           direction == IF main[2] > 0 THEN "buy" ELSE "sell"
           tokenAmount == Abs(main[2])
           solAmount == solAmountOf(tx, direction)
       IN IF RLt(solAmount, R(SolEps)) \/ tokenAmount < Eps THEN NoTrade
          ELSE [found |-> TRUE, direction |-> direction, tokenMint |-> main[1],
                tokenAmount |-> tokenAmount, solAmount |-> solAmount]

involves(t) == t.toUserAccount = walletAddress \/ t.fromUserAccount = walletAddress

isLikelySwap(tx) ==
  LET userTokenTransfers == SelectSeq(tx.tokenTransfers, involves)
      userNativeTransfers == SelectSeq(tx.nativeTransfers, involves)
      wsolTransfers == SelectSeq(tx.tokenTransfers, LAMBDA t : isSolOrWsol(t.mint))
      receives(ts) == \E i \in 1..Len(ts) : ts[i].toUserAccount = walletAddress
      sends(ts) == \E i \in 1..Len(ts) : ts[i].fromUserAccount = walletAddress
      isBuyPattern == (sends(userNativeTransfers) \/ sends(wsolTransfers))
                        /\ receives(userTokenTransfers)
      isSellPattern == sends(userTokenTransfers)
                         /\ (receives(userNativeTransfers) \/ receives(wsolTransfers))
      tradeInfo == analyzeTradeDirection(tx)
  IN /\ Len(tx.tokenTransfers) > 0 \/ Len(tx.nativeTransfers) > 0
     /\ isBuyPattern \/ isSellPattern
     /\ tradeInfo.found
     /\ RLt(R(SolEps), tradeInfo.solAmount)
     /\ tradeInfo.tokenAmount > 0

(* name.toLowerCase().replace(/[^a-z0-9]/g, '') through canonicalPlatformMap, *)
(* on the names that occur.                                                *)
normalizePlatformName(name) ==
  CASE name = "RAYDIUM" -> "raydium"
    [] name = "Raydium" -> "raydium"
    [] name = "JUPITER" -> "jupiter"
    [] name = "UNKNOWN" -> "unknown"
    [] OTHER -> name

canonicalWhitelist == {"pumpfun", "pumpswap", "raydium", "jupiter", "orca", "meteora"}

(* sourceStr.includes('jupiter') || sourceStr.includes('jup')              *)
sourceIsJupiter(source) == source = "JUPITER"

jupiterProgramIds ==
  {"JUP6LkbZbjS1jKKwapdHch49T4B9iFPE9Z1b6dpVRfC",
   "JUP4Fb2cqiRUcaTHdrPC8h2gNsA2ETXiPDD33WcGuJB",
   "JUP2jxvXaqu7NQY1GmNF4m1vodw12LVXYxbFL2uJvfo"}

(* this.platformMapping[pid], "" when the program id is not a key          *)
platformMapping(pid) ==
  CASE pid = "675kPX9MHTjS2zt1qfr1NYHuzeLXfQM9H24wFSUt1Mp8" -> "Raydium"
    [] pid = "JUP6LkbZbjS1jKKwapdHch49T4B9iFPE9Z1b6dpVRfC" -> "jupiter"
    [] OTHER -> ""

RECURSIVE platformOfPrograms(_)
platformOfPrograms(programIds) ==
  IF programIds = <<>> THEN ""
  ELSE IF programIds[1] \in jupiterProgramIds THEN "jupiter"
  ELSE IF platformMapping(programIds[1]) # ""
          /\ normalizePlatformName(platformMapping(programIds[1])) \in canonicalWhitelist
    THEN normalizePlatformName(platformMapping(programIds[1]))
  ELSE platformOfPrograms(Tail(programIds))

extractPlatformEnhanced(tx) ==
  IF tx.type = "SWAP" THEN "jupiter"
  ELSE IF sourceIsJupiter(tx.source) THEN "jupiter"
  ELSE IF normalizePlatformName(tx.source) \in canonicalWhitelist
    THEN normalizePlatformName(tx.source)
  ELSE IF platformOfPrograms(tx.instructions) # "" THEN platformOfPrograms(tx.instructions)
  ELSE IF isLikelySwap(tx) THEN "jupiter"
  ELSE "unknown"

processAnyTransaction(tx, platform) == TRUE

shouldProcessTransaction(tx, platform) ==
  tx.type = "SWAP" \/ platform # "unknown" \/ isLikelySwap(tx)

NoSwap == [created |-> FALSE]

createSwapFromRawTransfers(tx, platform) ==
  LET tradeInfo == analyzeTradeDirection(tx) IN
  IF ~tradeInfo.found THEN NoSwap
  ELSE [created |-> TRUE,
        signature |-> tx.signature, timestamp |-> tx.blockTime,
        tokenMint |-> tradeInfo.tokenMint, tokenAmount |-> tradeInfo.tokenAmount,
        solAmount |-> tradeInfo.solAmount, direction |-> tradeInfo.direction,
        platform |-> platform,
        pricePerToken |-> RDiv(tradeInfo.solAmount, R(tradeInfo.tokenAmount))]

(* tx.signature.substring(0, 8) on a transaction without a signature       *)
signatureSubstringThrows(tx) == tx.signature = undefined

(* processSwaps, lines 297-300: a call begins.                             *)
StartProcessSwaps ==
  /\ cpc = "idle"
  /\ \E input \in TxInputs : transactions' = input
  /\ txIndex' = 0
  /\ swapsOut' = <<>>
  /\ skippedTransactions' = <<>>
  /\ cpc' = "classifying"
  /\ UNCHANGED <<ledgerVars, serviceVars>>

(* processSwaps, lines 302-331: one iteration of the loop.                 *)
ClassifyTransaction ==
  /\ cpc = "classifying"
  /\ txIndex < Len(transactions)
  /\ LET tx == transactions[txIndex + 1]
         platform == extractPlatformEnhanced(tx)
         swap == createSwapFromRawTransfers(tx, platform)
     IN IF tx.blockTime = 0
          THEN /\ txIndex' = txIndex + 1
               /\ UNCHANGED <<cpc, swapsOut, skippedTransactions>>
        ELSE IF signatureSubstringThrows(tx)
          THEN /\ cpc' = "thrown"
               /\ UNCHANGED <<txIndex, swapsOut, skippedTransactions>>
        ELSE IF shouldProcessTransaction(tx, platform)
          THEN IF swap.created /\ RLt(R(SolEps), swap.solAmount)
                 THEN /\ swapsOut' = Append(swapsOut, swap)
                      /\ txIndex' = txIndex + 1
                      /\ UNCHANGED <<cpc, skippedTransactions>>
                 ELSE /\ skippedTransactions' =
                           Append(skippedTransactions,
                                  [signature |-> tx.signature,
                                   reason |-> IF ~swap.created THEN "Failed to create swap"
                                                               ELSE "Trivial SOL amount"])
                      /\ txIndex' = txIndex + 1
                      /\ UNCHANGED <<cpc, swapsOut>>
          ELSE /\ skippedTransactions' =
                    Append(skippedTransactions,
                           [signature |-> tx.signature,
                            reason |-> "Not identified as processable swap"])
               /\ txIndex' = txIndex + 1
               /\ UNCHANGED <<cpc, swapsOut>>
  /\ UNCHANGED <<transactions, ledgerVars, serviceVars>>

(* processSwaps, lines 333-344: return swaps.                              *)
ReturnSwaps ==
  /\ cpc = "classifying"
  /\ txIndex = Len(transactions)
  /\ cpc' = "returned"
  /\ UNCHANGED <<transactions, txIndex, swapsOut, skippedTransactions,
               ledgerVars, serviceVars>>

NextClassify == StartProcessSwaps \/ ClassifyTransaction \/ ReturnSwaps

SpecClassify == Init /\ [][NextClassify]_vars

(***************************************************************************)
(* DataQualityService.assessDataQuality                                    *)
(* (src/src/services/dataQualityService.ts).                               *)
(*                                                                         *)
(* The four argument lists are represented by what the checks read from    *)
(* them: their lengths and the lengths of the filtered lists the checks    *)
(* compare with a threshold.  An issue is its severity and category.       *)
(***************************************************************************)
QualityInputs ==
  { in \in [ transactionsLength   : {0, 2, 30},
             missingBlockTime     : {0, 1},
             missingSignatures    : {0, 1},
             largeGaps            : {0, 1},
             swapsLength          : {0, 2, 6},
             unknownPlatformCount : {0, 2, 6},
             rapidTrades          : {0, 1},
             oversellTokens       : {0, 1, 6},
             closedTradesLength   : {0, 1, 10},
             zeroCostTrades       : {0, 1},
             extremePnLTrades     : {0, 1},
             openHoldingsLength   : {0, 1},
             zeroCostHoldings     : {0, 1} ] :
      /\ in.swapsLength <= in.transactionsLength
      /\ in.missingBlockTime <= in.transactionsLength
      /\ in.missingSignatures <= in.transactionsLength
      /\ in.largeGaps + in.missingBlockTime + 1 <= in.transactionsLength
           \/ in.largeGaps = 0
      /\ in.unknownPlatformCount \in {0, in.swapsLength}
      /\ in.rapidTrades + 1 <= in.swapsLength \/ in.rapidTrades = 0
      /\ in.oversellTokens <= in.swapsLength
      /\ in.zeroCostTrades <= in.closedTradesLength
      /\ in.extremePnLTrades <= in.closedTradesLength
      /\ in.zeroCostHoldings <= in.openHoldingsLength }

Issue(severity, category) == [severity |-> severity, category |-> category]

(* The issues a check pushes, in order: found[i] tells whether the i-th    *)
(* condition of the check held, issue[i] is what it pushes.                *)
RECURSIVE pushed(_, _)
pushed(found, issue) ==
  IF found = <<>> THEN <<>>
  ELSE (IF Head(found) THEN <<Head(issue)>> ELSE <<>>)
         \o pushed(Tail(found), Tail(issue))

RECURSIVE deducted(_, _)
deducted(found, points) ==
  IF found = <<>> THEN 0
  ELSE (IF Head(found) THEN Head(points) ELSE 0)
         + deducted(Tail(found), Tail(points))

IntMax(a, b) == IF a > b THEN a ELSE b

assessSwapDetection(in) ==
  LET detectionRate == RDiv(R(in.swapsLength), R(in.transactionsLength))
      found == << RLt(detectionRate, Rat(1, 10)),
                  RLt(RMul(R(in.swapsLength), Rat(2, 10)),
                      R(in.unknownPlatformCount)),
                  in.rapidTrades > 0 >>
  IN [ score  |-> IntMax(0, 100 - deducted(found, <<20, 15, 5>>)),
       issues |-> pushed(found, << Issue("WARNING", "SWAP_DETECTION"),
                                   Issue("WARNING", "SWAP_DETECTION"),
                                   Issue("INFO", "SWAP_DETECTION") >>) ]

assessPnLCalculation(in) ==
  LET severity == IF in.oversellTokens > 5 THEN "ERROR" ELSE "WARNING"
      found == << in.oversellTokens > 0,
                  RLt(RMul(R(in.closedTradesLength), Rat(1, 10)),
                      R(in.zeroCostTrades)),
                  in.extremePnLTrades > 0 >>
  IN [ score  |-> IntMax(0, 100 - deducted(found,
                     << IF severity = "ERROR" THEN 40 ELSE 25, 15, 10 >>)),
       issues |-> pushed(found, << Issue(severity, "OVERSELL"),
                                   Issue("WARNING", "PNL_CALCULATION"),
                                   Issue("WARNING", "PNL_CALCULATION") >>) ]

assessDataCompleteness(in) ==
  LET found == << in.largeGaps > 0,
                  in.missingBlockTime > 0,
                  in.missingSignatures > 0 >>
  IN [ score  |-> IntMax(0, 100 - deducted(found, <<20, 30, 25>>)),
       issues |-> pushed(found, << Issue("WARNING", "MISSING_DATA"),
                                   Issue("ERROR", "MISSING_DATA"),
                                   Issue("ERROR", "MISSING_DATA") >>) ]

assessPriceDataQuality(in) ==
  LET found == << in.openHoldingsLength > 0 /\ in.zeroCostHoldings > 0 >>
  IN [ score  |-> IntMax(0, 100 - deducted(found, <<15>>)),
       issues |-> pushed(found, << Issue("WARNING", "PRICE_DATA") >>) ]

CountSeverity(issues, severity) ==
  Cardinality({ i \in 1..Len(issues) : issues[i].severity = severity })

determineConfidenceLevel(score, issues) ==
  LET hasErrors == CountSeverity(issues, "ERROR") > 0
      hasMultipleWarnings == CountSeverity(issues, "WARNING") > 3
  IN IF hasErrors \/ RLt(score, R(60)) THEN "LOW"
     ELSE IF hasMultipleWarnings \/ RLt(score, R(80)) THEN "MEDIUM"
     ELSE "HIGH"

assessDataQuality(in) ==
  LET swapDetection    == assessSwapDetection(in)
      pnlCalculation   == assessPnLCalculation(in)
      dataCompleteness == assessDataCompleteness(in)
      priceData        == assessPriceDataQuality(in)
      issues == swapDetection.issues \o pnlCalculation.issues
                  \o dataCompleteness.issues \o priceData.issues
      overallScore ==
        RAdd(RAdd(RAdd(RMul(R(swapDetection.score), Rat(3, 10)),
                       RMul(R(pnlCalculation.score), Rat(3, 10))),
                  RMul(R(dataCompleteness.score), Rat(25, 100))),
             RMul(R(priceData.score), Rat(15, 100)))
  IN [ overallScore          |-> overallScore,
       issues                |-> issues,
       swapDetectionScore    |-> swapDetection.score,
       pnlCalculationScore   |-> pnlCalculation.score,
       dataCompletenessScore |-> dataCompleteness.score,
       priceDataScore        |-> priceData.score,
       confidenceLevel       |-> determineConfidenceLevel(overallScore, issues) ]

(* One call of assessDataQuality.  The service keeps no state between     *)
(* calls, so a behaviour is one call on any of the inputs.                 *)
AssessDataQuality ==
  /\ qualityReport = NoReport
  /\ \E in \in QualityInputs :
       /\ qualityInput' = in
       /\ qualityReport' = assessDataQuality(in)
  /\ UNCHANGED exceptQuality

NextQuality == AssessDataQuality

SpecQuality == Init /\ [][NextQuality]_vars

(***************************************************************************)
(* WalletAnalyzer.checkRateLimit (src/unnamed/part_002, lines 126-144).    *)
(*                                                                         *)
(* The requests of one wallet address to one analyzer: requestLog is the   *)
(* entry of the Map under that address's hash, NoEntry when the Map has    *)
(* none.  The clock now is Date.now() in ticks of half an hour, and it     *)
(* never goes back.  admittedAt[RATE_LIMIT_WINDOW] counts the calls that   *)
(* returned without throwing at the present tick, admittedAt[1] those of   *)
(* the tick before: together, the admitted requests of the last hour.      *)
(***************************************************************************)
checkRateLimit(entry, time) ==
  IF entry = NoEntry THEN [ log |-> [count |-> 1, lastRequest |-> time],
                            thrown |-> FALSE ]
  ELSE IF time - entry.lastRequest > RATE_LIMIT_WINDOW
    THEN [ log |-> NoEntry, thrown |-> FALSE ]
  ELSE IF entry.count >= MAX_REQUESTS_PER_HOUR
    THEN [ log |-> entry, thrown |-> TRUE ]
  ELSE [ log |-> [count |-> entry.count + 1, lastRequest |-> time],
         thrown |-> FALSE ]

(* One request: analyzeWallet or analyzeWalletEnhanced up to and with its  *)
(* call of checkRateLimit.                                                 *)
CheckRateLimit ==
  LET checked == checkRateLimit(requestLog, now)
  IN /\ requestLog' = checked.log
     /\ admittedAt' =
          IF checked.thrown THEN admittedAt
          ELSE [admittedAt EXCEPT ![RATE_LIMIT_WINDOW] = @ + 1]
     /\ UNCHANGED <<now, exceptRate>>

(* Half an hour passes.                                                    *)
AdvanceClock ==
  /\ now < MaxTime
  /\ now' = now + 1
  /\ admittedAt' = [i \in 1..RATE_LIMIT_WINDOW |->
                      IF i < RATE_LIMIT_WINDOW THEN admittedAt[i + 1] ELSE 0]
  /\ UNCHANGED <<requestLog, exceptRate>>

NextRate == CheckRateLimit \/ AdvanceClock

SpecRate == Init /\ [][NextRate]_vars

(***************************************************************************)
(* CacheService (src/unnamed/part_008, lines 505-752).                     *)
(*                                                                         *)
(* cache is the Map as the sequence of its entries in insertion order,     *)
(* each with its key.  Times are in minutes: Date.now() is thirty minutes  *)
(* per tick of the clock.  A cache key is the prefix with the input that   *)
(* generateCacheKey hashes: the sixteen hexadecimal digits it keeps of the *)
(* SHA-256 are taken to be different for different inputs.                 *)
(***************************************************************************)
MinutesPerTick == 30

DateNow == MinutesPerTick * now

MAX_CACHE_SIZE == 1000

DEFAULT_TTL == 5

CacheEntry(key, data, timestamp, ttl) ==
  [key |-> key, data |-> data, timestamp |-> timestamp, ttl |-> ttl]

generateCacheKey(prefix, input) == [prefix |-> prefix, input |-> input]

(* The key a caller of set and get passes directly.                        *)
rawKey(i) == generateCacheKey("key", <<i>>)

mapIndex(entries, key) ==
  IF \E i \in 1..Len(entries) : entries[i].key = key
    THEN CHOOSE i \in 1..Len(entries) : entries[i].key = key
    ELSE 0

mapDelete(entries, key) == SelectSeq(entries, LAMBDA e : e.key # key)

mapSet(entries, entry) ==
  IF mapIndex(entries, entry.key) = 0 THEN Append(entries, entry)
  ELSE [entries EXCEPT ![mapIndex(entries, entry.key)] = entry]

isExpired(entry, time) == time - entry.timestamp > entry.ttl

cacheGet(entries, key, time) ==
  LET i == mapIndex(entries, key)
  IN IF i = 0 THEN [cache |-> entries, found |-> FALSE, value |-> null]
     ELSE IF isExpired(entries[i], time)
       THEN [cache |-> mapDelete(entries, key), found |-> FALSE,
             value |-> null]
     ELSE [cache |-> entries, found |-> TRUE, value |-> entries[i].data]

(* The place of entry i after the stable sort by timestamp, from 0.        *)
sortedPlace(entries, i) ==
  Cardinality({ j \in 1..Len(entries) :
                  \/ entries[j].timestamp < entries[i].timestamp
                  \/ entries[j].timestamp = entries[i].timestamp /\ j < i })

evictOldest(entries) ==
  LET toRemove == (Len(entries) * 1) \div 10
      kept == { i \in 1..Len(entries) : sortedPlace(entries, i) >= toRemove }
      tagged == SelectSeq([i \in 1..Len(entries) |->
                             [entry |-> entries[i], keep |-> i \in kept]],
                          LAMBDA e : e.keep)
  IN IF toRemove = 0 THEN entries
     ELSE [k \in 1..Len(tagged) |-> tagged[k].entry]

cacheSet(entries, key, value, ttl, time) ==
  LET room == IF Len(entries) >= MAX_CACHE_SIZE THEN evictOldest(entries)
              ELSE entries
  IN mapSet(room, CacheEntry(key, value, time, ttl))

cleanup(entries, time) ==
  SelectSeq(entries, LAMBDA e : ~(time - e.timestamp > e.ttl))

loadCacheFromDisk(file, time) ==
  SelectSeq(file, LAMBDA e : time - e.timestamp < e.ttl)

(* What .cache/cache.json may hold when the service is constructed: no     *)
(* file or an empty object, a file with a live and an expired entry, a     *)
(* file with MAX_CACHE_SIZE entries and a file with one more.              *)
fileOf(n) == [i \in 1..n |-> CacheEntry(rawKey(i), "v", 0, 60)]

DiskFiles ==
  { <<>>,
    << CacheEntry(rawKey(1), "v", 0, 60), CacheEntry(rawKey(2), "v", -120, 60) >>,
    fileOf(MAX_CACHE_SIZE),
    fileOf(MAX_CACHE_SIZE + 1) }

(* The keys and values of the direct calls of set and get: a key that the  *)
(* files hold and one that they do not.                                    *)
RawKeys == { rawKey(1), rawKey(0) }

RawValues == { "v", "w" }

(* CacheService.getInstance, first call: the constructor.                  *)
GetInstance ==
  /\ ~instance
  /\ instance' = TRUE
  /\ \E file \in DiskFiles : cache' = loadCacheFromDisk(file, DateNow)
  /\ UNCHANGED <<returned, cachedFor, exceptCache>>

Set ==
  /\ instance
  /\ \E key \in RawKeys, value \in RawValues :
       cache' = cacheSet(cache, key, value, DEFAULT_TTL, DateNow)
  /\ returned' = null
  /\ UNCHANGED <<instance, cachedFor, exceptCache>>

Get ==
  /\ instance
  /\ \E key \in RawKeys :
       LET got == cacheGet(cache, key, DateNow)
       IN /\ cache' = got.cache
          /\ returned' = [asked |-> key, found |-> got.found,
                          value |-> got.value]
  /\ UNCHANGED <<instance, cachedFor, exceptCache>>

Clear ==
  /\ instance
  /\ cache' = <<>>
  /\ returned' = null
  /\ UNCHANGED <<instance, cachedFor, exceptCache>>

(* The callback of the cleanup timer.                                      *)
Cleanup ==
  /\ instance
  /\ cache' = cleanup(cache, DateNow)
  /\ UNCHANGED <<instance, returned, cachedFor, exceptCache>>

NextCache ==
  GetInstance \/ Set \/ Get \/ Clear \/ Cleanup \/ AdvanceClock

SpecCache == Init /\ [][NextCache]_vars


(***************************************************************************)
(* The parsed-transactions interface of CacheService.  A signature is a    *)
(* number; the lists are two lists of eleven signatures that differ in     *)
(* the last one only, and a short list.                                    *)
(***************************************************************************)
firstTen == [i \in 1..10 |-> i]

SignatureLists == { firstTen \o <<11>>, firstTen \o <<12>>, <<1, 2, 3>> }

TransactionLists ==
  { <<[signature |-> 1]>>, <<[signature |-> 1], [signature |-> 2]>> }

slice(s, from, to) ==
  SubSeq(s, from + 1, IF to < Len(s) THEN to ELSE Len(s))

parsedKey(signatures) == generateCacheKey("parsed_tx", slice(signatures, 0, 10))

CacheParsedTransactions ==
  /\ instance
  /\ \E signatures \in SignatureLists, txs \in TransactionLists :
       /\ cache' = cacheSet(cache, parsedKey(signatures), txs, 30, DateNow)
       /\ cachedFor' = { p \in cachedFor : p[1] # signatures }
                          \cup { <<signatures, txs>> }
  /\ returned' = null
  /\ UNCHANGED <<instance, exceptCache>>

GetCachedParsedTransactions ==
  /\ instance
  /\ \E signatures \in SignatureLists :
       LET got == cacheGet(cache, parsedKey(signatures), DateNow)
       IN /\ cache' = got.cache
          /\ returned' = [asked |-> signatures, found |-> got.found,
                          value |-> got.value]
  /\ UNCHANGED <<instance, cachedFor, exceptCache>>

NextCacheKeys ==
  \/ GetInstance
  \/ CacheParsedTransactions
  \/ GetCachedParsedTransactions
  \/ Cleanup
  \/ AdvanceClock

SpecCacheKeys == Init /\ [][NextCacheKeys]_vars

(***************************************************************************)
(* WalletAnalyzer.analyzeWallet and analyzeWalletEnhanced, as far as       *)
(* console.log is concerned (src/unnamed/part_002, lines 218-403 and       *)
(* 409-640).  Both are async: a call runs without interruption from its    *)
(* start to its first await, which is after console.log has been saved     *)
(* and replaced, and again from its last await to its end, where           *)
(* console.log is restored; other calls can run in between.                *)
(***************************************************************************)
Analyzers == { [silent |-> TRUE], [silent |-> FALSE] }

Methods == { "analyzeWallet", "analyzeWalletEnhanced" }

noop(i) == i

restoreOriginalLog(call) == call.originalLog

NewWalletAnalyzer ==
  /\ analyzer = null
  /\ analyzer' \in Analyzers
  /\ UNCHANGED <<consoleLog, analyses, exceptConsole>>

(* A call up to its first await, or up to its return on a cache hit.       *)
StartAnalysis ==
  /\ analyzer # null
  /\ Len(analyses) < MaxAnalyses
  /\ \E method \in Methods, cached \in BOOLEAN :
       IF cached
         THEN /\ analyses' = Append(analyses,
                   [method |-> method, status |-> "resolved",
                    originalLog |-> consoleLog])
              /\ UNCHANGED consoleLog
         ELSE /\ analyses' = Append(analyses,
                   [method |-> method, status |-> "running",
                    originalLog |-> consoleLog])
              /\ consoleLog' = IF analyzer.silent THEN noop(Len(analyses) + 1)
                               ELSE consoleLog
  /\ UNCHANGED <<analyzer, exceptConsole>>

(* The end of a call: the last phase returns, or a phase throws and the    *)
(* catch block runs.                                                       *)
SettleAnalysis ==
  /\ \E i \in 1..Len(analyses), outcome \in {"resolved", "rejected"} :
       /\ analyses[i].status = "running"
       /\ consoleLog' = restoreOriginalLog(analyses[i])
       /\ analyses' = [analyses EXCEPT ![i].status = outcome]
  /\ UNCHANGED <<analyzer, exceptConsole>>

NextConsole == NewWalletAnalyzer \/ StartAnalysis \/ SettleAnalysis

SpecConsole == Init /\ [][NextConsole]_vars

(***************************************************************************)
(* LiveSwapMonitor: start() constructs a WebSocket, stores it in ws and    *)
(* registers its handlers; the close handler sets a timer that calls       *)
(* start() again; stop() closes the socket in ws and sets ws to null.      *)
(* SpecMonitor is the owner calling start() and stop() in any order while  *)
(* sockets open, drop and finish closing, and reconnect timers run out.    *)
(***************************************************************************)
ReadyStates == { "CONNECTING", "OPEN", "CLOSING", "CLOSED" }

(* new WebSocket(wsUrl), assigned to this.ws.  Every socket gets the       *)
(* handlers of start(), the close handler among them.                      *)
start ==
  /\ sockets' = Append(sockets, "CONNECTING")
  /\ ws' = [socket |-> Len(sockets) + 1]

(* ws.close(): a socket that is connecting or open starts to close.        *)
close(socket) ==
  [sockets EXCEPT ![socket] =
     IF @ \in { "CONNECTING", "OPEN" } THEN "CLOSING" ELSE @]

(* The owner calls start().                                                *)
MonitorStart ==
  /\ Len(sockets) < MaxSockets
  /\ start
  /\ stopped' = FALSE
  /\ UNCHANGED <<reconnectTimers, exceptMonitor>>

(* The owner calls stop().                                                 *)
MonitorStop ==
  /\ IF ws # null
       THEN /\ sockets' = close(ws.socket)
            /\ ws' = null
       ELSE UNCHANGED <<sockets, ws>>
  /\ stopped' = TRUE
  /\ UNCHANGED <<reconnectTimers, exceptMonitor>>

(* The handshake of a socket completes: the open handler subscribes.       *)
SocketOpen ==
  /\ \E i \in 1..Len(sockets) :
       /\ sockets[i] = "CONNECTING"
       /\ sockets' = [sockets EXCEPT ![i] = "OPEN"]
  /\ UNCHANGED <<ws, reconnectTimers, stopped, exceptMonitor>>

(* A socket is closed, by the server or the network or at the end of the   *)
(* closing that close() began: its close handler sets the reconnect timer. *)
SocketClose ==
  /\ \E i \in 1..Len(sockets) :
       /\ sockets[i] # "CLOSED"
       /\ sockets' = [sockets EXCEPT ![i] = "CLOSED"]
  /\ reconnectTimers' = reconnectTimers + 1
  /\ UNCHANGED <<ws, stopped, exceptMonitor>>

(* A reconnect timer runs out and calls this.start().                      *)
Reconnect ==
  /\ reconnectTimers > 0
  /\ Len(sockets) < MaxSockets
  /\ reconnectTimers' = reconnectTimers - 1
  /\ start
  /\ UNCHANGED <<stopped, exceptMonitor>>

NextMonitor ==
  MonitorStart \/ MonitorStop \/ SocketOpen \/ SocketClose \/ Reconnect

SpecMonitor == Init /\ [][NextMonitor]_vars

(***************************************************************************)
(* WalletDiscoveryEngine: the monitor's callback handleSwapDetection       *)
(* records each detected swap and queues the wallets that meet the         *)
(* criteria; the analysis worker takes one wallet at a time off the queue  *)
(* and awaits its analysis.  The callback runs whenever a message arrives, *)
(* also while the worker is awaiting.  Amounts are whole SOL; the monitor  *)
(* is constructed with a threshold of 1 SOL (line 36).  firstSeen is       *)
(* written once and never read, and is left out of the wallet record.      *)
(***************************************************************************)
SolAmounts == { 2, 11, 25 }

Platforms == { "Jupiter", "Raydium" }

SwapDetections ==
  [wallet : WalletAddresses, solAmount : SolAmounts, platform : Platforms]

(* this.wallets.has(wallet)                                                *)
has(map, wallet) == wallet \in DOMAIN map

DiscoveredWallet(wallet) ==
  [address |-> wallet, totalSwapVolume |-> 0, swapCount |-> 0,
   platforms |-> {}, analyzed |-> FALSE]

shouldAnalyze(wallet) ==
  \/ wallet.totalSwapVolume > 20
  \/ wallet.swapCount > 3
  \/ wallet.totalSwapVolume > 10 * wallet.swapCount

(* this.analysisQueue.includes(walletAddress)                              *)
includes(queue, address) ==
  \E i \in 1..Len(queue) : queue[i] = address

queueForAnalysis(queue, address) ==
  IF ~includes(queue, address) THEN Append(queue, address)
  ELSE queue

(* The wallets Map and the queue after handleSwapDetection(swap).          *)
handleSwapDetection(map, queue, swap) ==
  LET created == IF ~has(map, swap.wallet)
                   THEN (swap.wallet :> DiscoveredWallet(swap.wallet)) @@ map
                   ELSE map
      old == created[swap.wallet]
      walletData ==
        [old EXCEPT !.totalSwapVolume = @ + swap.solAmount,
                    !.swapCount = @ + 1,
                    !.platforms = @ \cup { swap.platform }]
  IN [wallets |-> [created EXCEPT ![swap.wallet] = walletData],
      analysisQueue |->
        IF shouldAnalyze(walletData) /\ ~walletData.analyzed
          THEN queueForAnalysis(queue, swap.wallet)
          ELSE queue]

(* The monitor delivers a detected swap to the callback.                   *)
HandleSwapDetection ==
  /\ detections < MaxDetections
  /\ \E swap \in SwapDetections :
       LET after == handleSwapDetection(wallets, analysisQueue, swap)
       IN /\ wallets' = after.wallets
          /\ analysisQueue' = after.analysisQueue
  /\ detections' = detections + 1
  /\ UNCHANGED <<isAnalyzing, analyzing, successes, exceptDiscovery>>

(* An iteration of the worker's loop that finds a queued wallet: it takes  *)
(* the wallet off the queue and runs to the await of its analysis.  An     *)
(* iteration that finds nothing, and the waits between iterations, change  *)
(* no state.                                                               *)
WorkerTake ==
  /\ Len(analysisQueue) > 0
  /\ ~isAnalyzing
  /\ isAnalyzing' = TRUE
  /\ analyzing' = [wallet |-> Head(analysisQueue)]
  /\ analysisQueue' = Tail(analysisQueue)
  /\ UNCHANGED <<wallets, detections, successes, exceptDiscovery>>

(* analyzer.analyzeWallet resolves: the wallet is marked as analyzed, and  *)
(* the worker clears isAnalyzing.                                          *)
AnalysisResolves ==
  /\ analyzing # null
  /\ wallets' = [wallets EXCEPT ![analyzing.wallet].analyzed = TRUE]
  /\ successes' = [successes EXCEPT ![analyzing.wallet] = @ + 1]
  /\ isAnalyzing' = FALSE
  /\ analyzing' = null
  /\ UNCHANGED <<analysisQueue, detections, exceptDiscovery>>

(* analyzer.analyzeWallet rejects: analyzeWallet catches and logs, and the *)
(* worker clears isAnalyzing.                                              *)
AnalysisRejects ==
  /\ analyzing # null
  /\ isAnalyzing' = FALSE
  /\ analyzing' = null
  /\ UNCHANGED <<wallets, analysisQueue, detections, successes,
                 exceptDiscovery>>

NextDiscovery ==
  HandleSwapDetection \/ WorkerTake \/ AnalysisResolves \/ AnalysisRejects

SpecDiscovery == Init /\ [][NextDiscovery]_vars

(***************************************************************************)
(* Vocabulary of the properties.                                           *)
(***************************************************************************)
Mints == { sw.tokenMint : sw \in SwapDomain }

Running == pc = "processing" /\ idx < Len(sortedSwaps)

CurSwap == sortedSwaps[idx + 1]

(* A step that processes CurSwap.                                          *)
Stepping == Running /\ idx' = idx + 1

SellStep == Stepping /\ CurSwap.direction = "sell"

BuyStep == Stepping /\ CurSwap.direction = "buy"

Available(hs, mint) ==
  IF HoldingIndex(hs, mint) = 0 THEN 0
  ELSE hs[HoldingIndex(hs, mint)].totalQuantity

LotsOf(hs, mint) ==
  IF HoldingIndex(hs, mint) = 0 THEN <<>>
  ELSE hs[HoldingIndex(hs, mint)].purchaseLots

(* The closed trades a step appends.                                       *)
NewTrades == SubSeq(closedTrades', Len(closedTrades) + 1, Len(closedTrades'))

(* Quantities and costs of the swaps processed so far.                     *)
SwapQty(sw, mint, dir) ==
  IF sw.tokenMint = mint /\ sw.direction = dir THEN sw.tokenAmount ELSE 0

RECURSIVE BoughtQty(_, _)
BoughtQty(mint, n) ==
  IF n = 0 THEN 0
  ELSE SwapQty(sortedSwaps[n], mint, "buy") + BoughtQty(mint, n - 1)

RECURSIVE SoldQty(_, _)
SoldQty(mint, n) ==
  IF n = 0 THEN 0
  ELSE SwapQty(sortedSwaps[n], mint, "sell") + SoldQty(mint, n - 1)

RECURSIVE BuyCost(_, _)
BuyCost(mint, n) ==
  IF n = 0 THEN R(0)
  ELSE RAdd(RMul(R(SwapQty(sortedSwaps[n], mint, "buy")), sortedSwaps[n].pricePerToken),
            BuyCost(mint, n - 1))

RECURSIVE ClosedCostUpTo(_, _)
ClosedCostUpTo(mint, n) ==
  IF n = 0 THEN R(0)
  ELSE RAdd(IF closedTrades[n].tokenMint = mint
              THEN closedTrades[n].totalCostBasisInSol ELSE R(0),
            ClosedCostUpTo(mint, n - 1))

ClosedCost(mint) == ClosedCostUpTo(mint, Len(closedTrades))

(* No sell of the asset processed so far asked for more than was held.     *)
NoOversellSoFar(mint) ==
  \A j \in 1..idx : SoldQty(mint, j) <= BoughtQty(mint, j)

(* Cost of selling qty units oldest-first, as a sum over the lots.         *)
QtyBefore(lots, i) == SumQuantity(SubSeq(lots, 1, i - 1))

TakenFrom(lots, i, qty) ==
  LET left == qty - QtyBefore(lots, i) IN
  IF left <= 0 THEN 0
  ELSE IF left < lots[i].quantity THEN left ELSE lots[i].quantity

RECURSIVE FifoCostUpTo(_, _, _)
FifoCostUpTo(lots, n, qty) ==
  IF n = 0 THEN R(0)
  ELSE RAdd(RMul(R(TakenFrom(lots, n, qty)), lots[n].costPerUnit),
            FifoCostUpTo(lots, n - 1, qty))

FifoCost(lots, qty) == FifoCostUpTo(lots, Len(lots), qty)

(* new is old with k lots taken off the front and at most the next lot     *)
(* reduced: nothing behind a surviving lot is touched.                     *)
FrontConsumed(old, new, k) ==
  /\ Len(new) = Len(old) - k
  /\ \A j \in 2..Len(new) : new[j] = old[k + j]
  /\ Len(new) > 0 =>
       /\ new[1] = [old[k + 1] EXCEPT !.quantity = new[1].quantity]
       /\ new[1].quantity > 0
       /\ new[1].quantity <= old[k + 1].quantity

(***************************************************************************)
(* C1.  A sell processed while the asset's available quantity is below the *)
(* dust epsilon (or the asset is not held at all) appends exactly one      *)
(* closed trade with cost basis 0, proceeds equal to the swap's solAmount, *)
(* realized PnL 0, quantity equal to the swap's tokenAmount and holding    *)
(* duration 0, and adds exactly 1 to the zero-profit counter.              *)
(***************************************************************************)
C1_MissingBuySell ==
  [][ (SellStep /\ Available(holdings, CurSwap.tokenMint) < Eps) =>
        /\ Len(NewTrades) = 1
        /\ NewTrades[1].totalCostBasisInSol = R(0)
        /\ NewTrades[1].totalProceedsInSol = CurSwap.solAmount
        /\ NewTrades[1].realizedPnLInSol = R(0)
        /\ NewTrades[1].quantity = CurSwap.tokenAmount
        /\ NewTrades[1].holdingDurationSeconds = 0
        /\ zeroProfit' = zeroProfit + 1 ]_vars

(* C1 restricted to an asset that is not held at all.                      *)
C1_NeverBought ==
  [][ (SellStep /\ HoldingIndex(holdings, CurSwap.tokenMint) = 0) =>
        /\ Len(NewTrades) = 1
        /\ NewTrades[1].totalCostBasisInSol = R(0)
        /\ NewTrades[1].totalProceedsInSol = CurSwap.solAmount
        /\ NewTrades[1].realizedPnLInSol = R(0)
        /\ NewTrades[1].quantity = CurSwap.tokenAmount
        /\ NewTrades[1].holdingDurationSeconds = 0
        /\ zeroProfit' = zeroProfit + 1 ]_vars

(***************************************************************************)
(* C2.  On every sell that asks for more than the (non-empty) holding has, *)
(* the closed trade recorded for the unmatched portion (positive quantity, *)
(* no cost basis) has realized PnL exactly 0.                              *)
(***************************************************************************)
UnmatchedTrade(t) == t.quantity > 0 /\ t.totalCostBasisInSol = R(0)

C2_OversellZeroPnL ==
  [][ (SellStep /\ LotsOf(holdings, CurSwap.tokenMint) # <<>>
                /\ CurSwap.tokenAmount > Available(holdings, CurSwap.tokenMint)) =>
        \A i \in 1..Len(NewTrades) :
          UnmatchedTrade(NewTrades[i]) => NewTrades[i].realizedPnLInSol = R(0) ]_vars

AllLotsAboveEps(lots) == \A i \in 1..Len(lots) : lots[i].quantity > Eps

LotsChronological(lots) ==
  \A i, j \in 1..Len(lots) : i < j => lots[i].timestamp <= lots[j].timestamp

C5_Conservation ==
  pc = "processing" =>
    \A mint \in Mints :
      NoOversellSoFar(mint) =>
        ~RLt(R(Eps),
             RAbs(RSub(RAdd(ClosedCost(mint), TotalCost(LotsOf(holdings, mint))),
                       BuyCost(mint, idx))))

(***************************************************************************)
(* C6.  The result of a call is the same for every reordering of its       *)
(* input list.                                                             *)
(***************************************************************************)
Reorderings(n) ==
  { f \in [1..n -> 1..n] : \A i, j \in 1..n : i # j => f[i] # f[j] }

Reordered(s, f) == [i \in 1..Len(s) |-> s[f[i]]]

C6_AnyOrder ==
  pc = "done" =>
    \A f \in Reorderings(Len(swaps)) :
      RunOnNewInstance(Reordered(swaps, f)) = result

(***************************************************************************)
(* C6 as amended.  The result of a call is the same for every reordering   *)
(* of its input list that keeps swaps of equal timestamp in their original *)
(* relative order.                                                         *)
(***************************************************************************)
KeepsTies(s, f) ==
  \A i, j \in 1..Len(s) :
    (i < j /\ s[f[i]].timestamp = s[f[j]].timestamp) => f[i] < f[j]

C6_OrderUpToTies ==
  pc = "done" =>
    \A f \in Reorderings(Len(swaps)) :
      KeepsTies(swaps, f) => RunOnNewInstance(Reordered(swaps, f)) = result

(* The input had a later swap in front of an earlier one, and the sort     *)
(* moved it: a sell at time 2 given before the buy at time 1 it consumes.  *)
C6_Witness ==
  /\ pc = "done"
  /\ Len(swaps) = 2
  /\ swaps[1].signature = "s1"
  /\ swaps[2].signature = "b1"
  /\ sortedSwaps # swaps
  /\ Len(result.closedTrades) = 1
  /\ result.closedTrades[1].totalCostBasisInSol = R(8)

(***************************************************************************)
(* C7.  Every call returns what a newly constructed instance returns for   *)
(* the same input, whatever the instance processed before; so two calls in *)
(* a row with the same input return equal results.                         *)
(***************************************************************************)
C7_IdempotentReset ==
  pc = "done" => result = RunOnNewInstance(swaps)

(* A second call on an instance, repeating an input of two or more swaps   *)
(* (a changed input has at most MaxRerun swaps), that closed a trade and   *)
(* left a holding open.                                                    *)
C7_Witness ==
  /\ pc = "done"
  /\ calls = 2
  /\ Len(swaps) > MaxRerun
  /\ Len(result.closedTrades) > 0
  /\ Len(result.openHoldings) > 0

PnLFromLots(t) ==
  t.realizedPnLInSol = RSub(t.totalProceedsInSol, t.totalCostBasisInSol)

PnLConservative(t) ==
  t.totalCostBasisInSol = R(0) /\ t.realizedPnLInSol = R(0)

C9_PositiveQuantity ==
  \A i \in 1..Len(closedTrades) : closedTrades[i].quantity > 0

(***************************************************************************)
(* C10.  After every processed swap, each holding's totalQuantity is the   *)
(* sum of the quantities of its lots, within the dust epsilon.             *)
(***************************************************************************)
C10_TotalIsSumOfLots ==
  pc = "processing" =>
    \A i \in 1..Len(holdings) :
      Abs(holdings[i].totalQuantity - SumQuantity(holdings[i].purchaseLots)) <= Eps

(***************************************************************************)
(* C11.  The openHoldings a call returns are exactly the remaining         *)
(* holdings above the dust epsilon: every returned holding has a           *)
(* totalQuantity above the epsilon that equals the sum of its lots (up to *)
(* the epsilon the engine's own re-verification allows), and every asset   *)
(* whose remaining quantity is above the epsilon is returned.              *)
(***************************************************************************)
Returned(mint) ==
  \E j \in 1..Len(result.openHoldings) : result.openHoldings[j].tokenMint = mint

C11_OpenHoldings ==
  pc = "done" =>
    /\ \A j \in 1..Len(result.openHoldings) :
         LET h == result.openHoldings[j] IN
           /\ h.totalQuantity > Eps
           /\ Abs(SumQuantity(h.purchaseLots) - h.totalQuantity) <= Eps
    /\ \A i \in 1..Len(holdings) :
         holdings[i].totalQuantity > Eps => Returned(holdings[i].tokenMint)

(***************************************************************************)
(* C12.  Holding.totalQuantity >= 0 always: in every state of a run, for   *)
(* every holding of the ledger, and for every holding a call returns.      *)
(***************************************************************************)
C12_NonNegative ==
  /\ \A i \in 1..Len(holdings) : holdings[i].totalQuantity >= 0
  /\ pc = "done" =>
       \A j \in 1..Len(result.openHoldings) :
         result.openHoldings[j].totalQuantity >= 0

(* A sell has reduced a holding that stays in the ledger, in a run whose    *)
(* input held a record with a negative traded amount.                      *)
C12_Witness ==
  /\ pc = "processing"
  /\ \E k \in 1..Len(swaps) : swaps[k].tokenAmount < 0
  /\ idx = 2
  /\ sortedSwaps[1].signature = "b2"
  /\ sortedSwaps[2].signature = "s1"
  /\ Available(holdings, "A") = 6
  /\ SumQuantity(LotsOf(holdings, "A")) = 6

(***************************************************************************)
(* C13.  The net base-asset figure of the summary equals the sum of the    *)
(* proceeds of all closed trades of the call minus the sum of the          *)
(* base-asset cost of all buys it processed.                               *)
(***************************************************************************)
RECURSIVE SumProceeds(_)
SumProceeds(trades) ==
  IF trades = <<>> THEN R(0)
  ELSE RAdd(trades[1].totalProceedsInSol, SumProceeds(Tail(trades)))

RECURSIVE SumBuyCost(_)
SumBuyCost(sw) ==
  IF sw = <<>> THEN R(0)
  ELSE RAdd(IF sw[1].direction = "buy" THEN sw[1].solAmount ELSE R(0),
            SumBuyCost(Tail(sw)))

C13_NetBaseAsset ==
  pc = "done" =>
    result.processingSummary.netSOL =
      RSub(SumProceeds(result.closedTrades), SumBuyCost(sortedSwaps))

(***************************************************************************)
(* C14.  A malformed swap (no timestamp, or a non-positive traded or base  *)
(* amount) is never processed, not even in part: it is never the swap of   *)
(* a processing step, and the closed trades, open holdings, counters and   *)
(* volume figures of the call are those of a call on the same input with   *)
(* that swap removed.                                                      *)
(***************************************************************************)
Malformed(sw) ==
  sw.timestamp = 0 \/ sw.tokenAmount <= 0 \/ ~RLt(R(0), sw.solAmount)

SameOutcome(r1, r2) ==
  /\ r1.closedTrades = r2.closedTrades
  /\ r1.openHoldings = r2.openHoldings
  /\ r1.processingSummary.validSwapsProcessed = r2.processingSummary.validSwapsProcessed
  /\ r1.processingSummary.oversellTradesCreated = r2.processingSummary.oversellTradesCreated
  /\ r1.processingSummary.zeroProfit = r2.processingSummary.zeroProfit
  /\ r1.processingSummary.avgBuyPrice = r2.processingSummary.avgBuyPrice
  /\ r1.processingSummary.avgSellPrice = r2.processingSummary.avgSellPrice
  /\ r1.processingSummary.netSOL = r2.processingSummary.netSOL

C14_MalformedIgnored ==
  /\ Running => ~Malformed(CurSwap)
  /\ pc = "done" =>
       \A k \in 1..Len(swaps) :
         Malformed(swaps[k]) =>
           SameOutcome(result, RunOnNewInstance(RemoveAt(swaps, k)))

(* A call whose input has a record with a negative traded amount between   *)
(* a buy and a sell has returned a closed trade and an open holding.       *)
C14_Witness ==
  /\ pc = "done"
  /\ Len(swaps) = 3
  /\ swaps[2].tokenAmount < 0
  /\ swaps[1].direction = "buy" /\ ~Malformed(swaps[1])
  /\ swaps[3].direction = "sell" /\ ~Malformed(swaps[3])
  /\ Len(result.closedTrades) = 1
  /\ Len(result.openHoldings) = 1

(***************************************************************************)
(* Vocabulary of the classifier's properties.                              *)
(***************************************************************************)
CurTx == transactions[txIndex + 1]

(* A step that classifies CurTx, and one that emits a swap for it.         *)
ClassifyStep == cpc = "classifying" /\ txIndex < Len(transactions) /\ txIndex' = txIndex + 1

EmitStep == ClassifyStep /\ Len(swapsOut') = Len(swapsOut) + 1

NewSwap == swapsOut'[Len(swapsOut')]

(* The candidate traded assets of a transaction with their net deltas, in  *)
(* the order in which the transfers first mention them, and the positions  *)
(* of those that share the largest absolute net delta.                     *)
Candidates(tx) == significantChangesOf(tx)

Largest(tx) ==
  { i \in 1..Len(Candidates(tx)) :
      \A j \in 1..Len(Candidates(tx)) : Abs(Candidates(tx)[j][2]) <= Abs(Candidates(tx)[i][2]) }

Tied(tx) == Cardinality(Largest(tx)) >= 2

FirstTied(tx) == Candidates(tx)[CHOOSE i \in Largest(tx) : \A j \in Largest(tx) : i <= j][1]

LastTied(tx) == Candidates(tx)[CHOOSE i \in Largest(tx) : \A j \in Largest(tx) : j <= i][1]

(***************************************************************************)
(* C15.  When two or more candidate traded assets of a transaction share   *)
(* the largest absolute net delta, the asset of the emitted swap is the    *)
(* one of them first encountered in transfer order.                        *)
(***************************************************************************)
C15_FirstOfTied ==
  [][ (EmitStep /\ Tied(CurTx)) => NewSwap.tokenMint = FirstTied(CurTx) ]_vars

(***************************************************************************)
(* C15 as amended.  When two or more candidate traded assets share the     *)
(* largest absolute net delta, the asset of the emitted swap is the one of *)
(* them last encountered in transfer order, and the direction is the sign  *)
(* of that asset's net delta.                                              *)
(***************************************************************************)
C15_LastOfTied ==
  [][ (EmitStep /\ Tied(CurTx)) =>
        /\ NewSwap.tokenMint = LastTied(CurTx)
        /\ NewSwap.direction =
             (IF changeGet(Candidates(CurTx), LastTied(CurTx)) > 0 THEN "buy" ELSE "sell") ]_vars

(* A swap was emitted for a transaction that received 500 X and then sent  *)
(* 500 Y: it is a sell of Y.                                               *)
C15_Witness ==
  /\ txIndex = 1
  /\ Tied(transactions[1])
  /\ FirstTied(transactions[1]) = "X"
  /\ Len(swapsOut) = 1
  /\ swapsOut[1].tokenMint = "Y"
  /\ swapsOut[1].direction = "sell"
  /\ swapsOut[1].tokenAmount = 500

(***************************************************************************)
(* C16.  The base-asset amount of an emitted swap is, for a buy, the       *)
(* largest single base-asset amount (over native and wrapped transfers)    *)
(* that the account sent in the transaction and, for a sell, the largest   *)
(* single base-asset amount it received.                                   *)
(***************************************************************************)
largestSingleAmount(tx, direction) ==
  LET sent == direction = "buy"
      mine(t) == IF sent THEN t.fromUserAccount = walletAddress
                         ELSE t.toUserAccount = walletAddress
      amounts ==
        { lamportsToSol(tx.nativeTransfers[i].amount) :
            i \in { j \in 1..Len(tx.nativeTransfers) : mine(tx.nativeTransfers[j]) } }
        \cup
        { R(normalizeTokenAmount(tx.tokenTransfers[i])) :
            i \in { j \in 1..Len(tx.tokenTransfers) :
                      isSolOrWsol(tx.tokenTransfers[j].mint) /\ mine(tx.tokenTransfers[j]) } }
  IN IF amounts = {} THEN R(0)
     ELSE CHOOSE a \in amounts : \A b \in amounts : ~RLt(a, b)

C16_LargestSingleAmount ==
  [][ EmitStep => NewSwap.solAmount = largestSingleAmount(CurTx, NewSwap.direction) ]_vars

(***************************************************************************)
(* C17.  For each asset of a classified transaction, the net delta the     *)
(* classifier computes for the account is the sum of the amounts of the    *)
(* transfers the account receives minus the sum of the amounts of the      *)
(* transfers it sends, a transfer from the account to itself counting on   *)
(* both sides; the same holds for the base asset over its wrapped and      *)
(* native transfers.                                                       *)
(***************************************************************************)
RECURSIVE SumReceived(_, _)
SumReceived(tokenTransfers, mint) ==
  IF tokenTransfers = <<>> THEN 0
  ELSE (IF tokenTransfers[1].mint = mint /\ tokenTransfers[1].toUserAccount = walletAddress
          THEN tokenTransfers[1].tokenAmount ELSE 0)
       + SumReceived(Tail(tokenTransfers), mint)

RECURSIVE SumSent(_, _)
SumSent(tokenTransfers, mint) ==
  IF tokenTransfers = <<>> THEN 0
  ELSE (IF tokenTransfers[1].mint = mint /\ tokenTransfers[1].fromUserAccount = walletAddress
          THEN tokenTransfers[1].tokenAmount ELSE 0)
       + SumSent(Tail(tokenTransfers), mint)

RECURSIVE SumNative(_, _)
SumNative(nativeTransfers, received) ==
  IF nativeTransfers = <<>> THEN 0
  ELSE (IF (IF received THEN nativeTransfers[1].toUserAccount
                        ELSE nativeTransfers[1].fromUserAccount) = walletAddress
          THEN nativeTransfers[1].amount ELSE 0)
       + SumNative(Tail(nativeTransfers), received)

TradedAssets(tx) ==
  { tx.tokenTransfers[i].mint : i \in 1..Len(tx.tokenTransfers) } \ {WSOL}

Classified(i) == i <= txIndex /\ transactions[i].blockTime # 0

C17_NetDelta ==
  \A i \in 1..Len(transactions) :
    Classified(i) =>
      LET tx == transactions[i] IN
        /\ \A mint \in TradedAssets(tx) :
             changeGet(tokenChangesOf(tx.tokenTransfers, <<>>), mint)
               = SumReceived(tx.tokenTransfers, mint) - SumSent(tx.tokenTransfers, mint)
        /\ solChangeOf(tx)
             = RAdd(R(SumReceived(tx.tokenTransfers, WSOL) - SumSent(tx.tokenTransfers, WSOL)),
                    lamportsToSol(SumNative(tx.nativeTransfers, TRUE)
                                    - SumNative(tx.nativeTransfers, FALSE)))

(***************************************************************************)
(* C18.  Platform attribution never affects whether a transaction is       *)
(* treated as a swap: two classified transactions with the same asset and  *)
(* base-asset transfers but different type, source or program ids are      *)
(* either both emitted as the same swap (asset, direction, amounts) or     *)
(* both rejected.                                                          *)
(***************************************************************************)
SameTransfers(t1, t2) ==
  t1.tokenTransfers = t2.tokenTransfers /\ t1.nativeTransfers = t2.nativeTransfers

Emitted(i) == \E k \in 1..Len(swapsOut) : swapsOut[k].signature = transactions[i].signature

SwapFor(i) ==
  swapsOut[CHOOSE k \in 1..Len(swapsOut) : swapsOut[k].signature = transactions[i].signature]

SameSwap(s1, s2) ==
  /\ s1.tokenMint = s2.tokenMint
  /\ s1.direction = s2.direction
  /\ s1.tokenAmount = s2.tokenAmount
  /\ s1.solAmount = s2.solAmount
  /\ s1.pricePerToken = s2.pricePerToken

Excluded(i) ==
  \/ transactions[i].blockTime = 0
  \/ \E k \in 1..Len(skippedTransactions) :
       skippedTransactions[k].signature = transactions[i].signature

C19_NeverThrows ==
  /\ cpc # "thrown"
  /\ cpc = "returned" =>
       /\ txIndex = Len(transactions)
       /\ \A i \in 1..Len(transactions) : Emitted(i) \/ Excluded(i)

(***************************************************************************)
(* C20.  The data-quality score a call reports is a number between 0 and   *)
(* 100 inclusive, for every input, the empty list and inputs that close no *)
(* trade included.                                                         *)
(***************************************************************************)
Between0And100(x) == x[2] # 0 /\ ~RLt(x, R(0)) /\ ~RLt(R(100), x)

C20_ScoreClamped ==
  pc = "done" => Between0And100(result.processingSummary.dataQualityScore)

(***************************************************************************)
(* Properties of DataQualityService.                                       *)
(***************************************************************************)
Assessed == qualityReport # NoReport

HasIssue(severity) == CountSeverity(qualityReport.issues, severity) > 0

HasCategory(category) ==
  \E i \in 1..Len(qualityReport.issues) :
     qualityReport.issues[i].category = category

RLe(a, b) == a[1] * b[2] <= b[1] * a[2]

(* C21: the confidence level follows the score thresholds: a score below   *)
(* 60 gives LOW, a score from 60 to 80 inclusive gives MEDIUM, and only a  *)
(* score above 80 gives HIGH.                                              *)
C21_ScoreThresholds ==
  Assessed =>
    LET score == qualityReport.overallScore
        level == qualityReport.confidenceLevel
    IN /\ RLt(score, R(60)) => level = "LOW"
       /\ RLe(R(60), score) /\ RLe(score, R(80)) => level = "MEDIUM"
       /\ level = "HIGH" => RLt(R(80), score)

OversellOrError == HasCategory("OVERSELL") \/ HasIssue("ERROR")

(* C22: whenever the assessment detects an oversell or an error, the       *)
(* reported confidence level is held at MEDIUM or more cautious (it is     *)
(* never HIGH), whatever the numeric score.                                *)
C22_OversellOrErrorNotHigh ==
  Assessed /\ OversellOrError => qualityReport.confidenceLevel # "HIGH"

(***************************************************************************)
(* Properties of the rate limiter.                                         *)
(***************************************************************************)
RECURSIVE SumSeq(_)
SumSeq(s) == IF s = <<>> THEN 0 ELSE Head(s) + SumSeq(Tail(s))

(* The requests that passed the check at instants less than one hour       *)
(* apart: those of the present tick and of the tick before.                *)
AdmittedInLastHour == SumSeq(admittedAt)

(* C23: for one wallet address, no one-hour window contains more than      *)
(* MAX_REQUESTS_PER_HOUR (100) requests that passed the rate-limit check.  *)
C23_AtMostHundredPerHour == AdmittedInLastHour <= MAX_REQUESTS_PER_HOUR

(***************************************************************************)
(* Properties of CacheService.                                             *)
(***************************************************************************)
(* C24: in every reachable state of the CacheService, after construction   *)
(* with the entries loaded from disk and after any sequence of set, get    *)
(* and clear, the cache holds at most MAX_CACHE_SIZE (1000) entries.       *)
C24_SizeLimit == Len(cache) <= MAX_CACHE_SIZE

(* C25: getCachedParsedTransactions(S) returns null or the transactions    *)
(* most recently given to cacheParsedTransactions for exactly the          *)
(* signature list S, never those cached for another list.                  *)
C25_OnlyOwnTransactions ==
  returned # null /\ returned.found =>
    <<returned.asked, returned.value>> \in cachedFor

(***************************************************************************)
(* The lifecycle of a holding.                                             *)
(***************************************************************************)
TotalOf(hs, mint) ==
  IF HoldingIndex(hs, mint) = 0 THEN 0
  ELSE hs[HoldingIndex(hs, mint)].totalQuantity

LotQuantities(lots) == [i \in 1..Len(lots) |-> lots[i].quantity]

(* C26: a holding follows no-holding -> open (at least one lot) -> closed. *)
(* A buy of an asset that has no open lot (never bought, or everything     *)
(* bought was sold) opens a fresh holding: its only lot is the buy's and   *)
(* its totalQuantity is the buy's tokenAmount, nothing being carried over  *)
(* from the closed holding.                                                *)
C26_FreshHolding ==
  [][ BuyStep /\ LotsOf(holdings, CurSwap.tokenMint) = <<>> =>
        /\ LotQuantities(LotsOf(holdings', CurSwap.tokenMint))
             = <<CurSwap.tokenAmount>>
        /\ TotalOf(holdings', CurSwap.tokenMint) = CurSwap.tokenAmount ]_vars

(***************************************************************************)
(* The direction of a swap and the flow of the base asset.                 *)
(***************************************************************************)
(* What the account receives less what it sends, of the base asset (WSOL   *)
(* transfers and native transfers) and of a traded asset.                  *)
BaseDelta(tx) ==
  RAdd(R(SumReceived(tx.tokenTransfers, WSOL) - SumSent(tx.tokenTransfers, WSOL)),
       lamportsToSol(SumNative(tx.nativeTransfers, TRUE)
                       - SumNative(tx.nativeTransfers, FALSE)))

AssetDelta(tx, mint) ==
  SumReceived(tx.tokenTransfers, mint) - SumSent(tx.tokenTransfers, mint)

(* C27: a swap is emitted as buy only if the account's base-asset net      *)
(* delta is negative and as sell only if it is positive; a transaction in  *)
(* which the dominant asset and the base asset both move into, or both     *)
(* move out of, the account is not emitted.                                *)
C27_DirectionFollowsBaseFlow ==
  [][ EmitStep =>
        LET base  == BaseDelta(CurTx)
            asset == AssetDelta(CurTx, NewSwap.tokenMint)
        IN /\ NewSwap.direction = "buy"  => RLt(base, R(0))
           /\ NewSwap.direction = "sell" => RLt(R(0), base)
           /\ ~(asset > 0 /\ RLt(R(0), base))
           /\ ~(asset < 0 /\ RLt(base, R(0))) ]_vars

(***************************************************************************)
(* console.log after the analyses of a silent analyzer.                    *)
(***************************************************************************)
AllSettled ==
  /\ analyses # <<>>
  /\ \A i \in 1..Len(analyses) : analyses[i].status # "running"

(* C28: in silent mode, once every started analyzeWallet and               *)
(* analyzeWalletEnhanced call has resolved or rejected, overlapping calls  *)
(* included, console.log is again the function it was before the first.    *)
C28_ConsoleLogRestored ==
  analyzer # null /\ analyzer.silent /\ AllSettled =>
    consoleLog = originalConsoleLog

(***************************************************************************)
(* C29: after stop() has been called, the monitor constructs no new        *)
(* WebSocket unless the owner calls start() again: in every step that      *)
(* begins and ends with stop() as the owner's last call, the sockets       *)
(* constructed so far stay the same.                                       *)
(***************************************************************************)
C29_NoSocketAfterStop ==
  [][stopped /\ stopped' => Len(sockets') = Len(sockets)]_vars

(* The analysis of the wallet is in progress.                              *)
InProgress(w) == analyzing = [wallet |-> w]

(* The analysis of the wallet has completed successfully.                  *)
Completed(w) == successes[w] > 0

(***************************************************************************)
(* C30: whatever the interleaving of swap detections with the worker, no   *)
(* step adds a wallet to the analysis queue while its analysis is in       *)
(* progress or after it has completed successfully, and no wallet's        *)
(* analysis completes successfully more than once.                         *)
(***************************************************************************)
C30_AnalyzedAtMostOnce ==
  [][\A w \in WalletAddresses :
       /\ (InProgress(w) \/ Completed(w)) /\ ~includes(analysisQueue, w)
            => ~includes(analysisQueue', w)
       /\ successes'[w] <= 1]_vars

====
